---- MODULE Spec2Model ----
(***************************************************************************)
(* Model of the Retro OPL2 emulator front end (retro_opl.c): the script    *)
(* interpreter that reads an OPL2 hardware script line by line, keeps the  *)
(* virtual tick clock t and the sample position current, drives the OPL    *)
(* device (opl_write, opl_generate) and moves the generated samples        *)
(* through the sample buffer into the WAV output.                          *)
(*                                                                         *)
(* A line is a sequence of character codes, without its line break, as     *)
(* readInput leaves it in l_buf.  One step of the model is one iteration   *)
(* of the main loop: the line is read and completely processed, or the     *)
(* program exits through raiseErr.  The calls made on the OPL driver and   *)
(* the bulk writes of flushBuffer are recorded, in order, in events.       *)
(* I/O failures of the C library (fputc, fwrite, fseek) are not modelled.  *)
(***************************************************************************)
EXTENDS Integers, Sequences, FiniteSets

\* ------------------------------------------------------------------------
\* Bounds of the model
\* ------------------------------------------------------------------------

\* Largest number of body lines that are read after the header line.
MaxLines == 3

\* ------------------------------------------------------------------------
\* Program constants
\* ------------------------------------------------------------------------

BUFFER_SAMPLES == 4096

INT32_MAX == 2147483647

\* ------------------------------------------------------------------------
\* Characters and lines
\* ------------------------------------------------------------------------

\* The printing US-ASCII characters 0x20 .. 0x7e, in code order (the grave
\* accent 0x60, which no string of the language can hold, is named).
Printable ==
  << " ", "!", "\"", "#", "$", "%", "&", "'", "(", ")", "*", "+", ",", "-",
     ".", "/", "0", "1", "2", "3", "4", "5", "6", "7", "8", "9", ":", ";",
     "<", "=", ">", "?", "@", "A", "B", "C", "D", "E", "F", "G", "H", "I",
     "J", "K", "L", "M", "N", "O", "P", "Q", "R", "S", "T", "U", "V", "W",
     "X", "Y", "Z", "[", "\\", "]", "^", "_", "grave", "a", "b", "c", "d", "e",
     "f", "g", "h", "i", "j", "k", "l", "m", "n", "o", "p", "q", "r", "s",
     "t", "u", "v", "w", "x", "y", "z", "{", "|", "}", "~" >>

\* Character code of a one-character string (a C character literal).
Ord(ch) ==
  IF ch = "\t" THEN 9
  ELSE 31 + (CHOOSE i \in 1..Len(Printable) : Printable[i] = ch)

\* The character literals the program compares with.
ch_TAB == Ord("\t")
ch_SP == Ord(" ")
ch_APOS == Ord("'")
ch_0 == Ord("0")
ch_2 == Ord("2")
ch_9 == Ord("9")
ch_A == Ord("A")
ch_F == Ord("F")
ch_L == Ord("L")
ch_O == Ord("O")
ch_P == Ord("P")
ch_a == Ord("a")
ch_f == Ord("f")
ch_r == Ord("r")
ch_w == Ord("w")

\* The content of l_buf for a line written as a tuple of characters.
Str(chars) == [i \in 1..Len(chars) |-> Ord(chars[i])]

\* l_buf[i] for the zero-based index i: the buffer is cleared to nul before
\* a line is stored, so every position after the line reads as 0.
At(buf, i) == IF i < Len(buf) THEN buf[i + 1] ELSE 0

\* ------------------------------------------------------------------------
\* isBlankStr, parseByte, parseInt
\* ------------------------------------------------------------------------

\* isBlankStr with the tab forgotten.
RECURSIVE isBlankStr_spaces(_, _)
isBlankStr_spaces(buf, p) ==
  IF At(buf, p) = 0 THEN TRUE
  ELSE IF At(buf, p) # ch_SP THEN FALSE
  ELSE isBlankStr_spaces(buf, p + 1)

RECURSIVE isBlankStr(_, _)
isBlankStr(buf, p) ==
  IF At(buf, p) = 0 THEN TRUE
  ELSE IF At(buf, p) # ch_SP /\ At(buf, p) # ch_TAB THEN FALSE
  ELSE isBlankStr(buf, p + 1)

\* The loop "skip over any tabs and spaces" of parseByte and parseInt.
RECURSIVE SkipBlanks(_, _)
SkipBlanks(buf, p) ==
  IF At(buf, p) = ch_TAB \/ At(buf, p) = ch_SP
    THEN SkipBlanks(buf, p + 1)
    ELSE p

\* The test for a base-16 digit used by parseByte.
IsHexDigit(c) ==
  \/ (c >= ch_0 /\ c <= ch_9)
  \/ (c >= ch_A /\ c <= ch_F)
  \/ (c >= ch_a /\ c <= ch_f)

\* HexDigitValue without the offset of ten for the small letters.
HexDigitValue_low(c) ==
  IF c >= ch_0 /\ c <= ch_9 THEN c - ch_0
  ELSE IF c >= ch_A /\ c <= ch_F THEN c - ch_A + 10
  ELSE c - ch_a

\* The value parseByte adds for a base-16 digit.
HexDigitValue(c) ==
  IF c >= ch_0 /\ c <= ch_9 THEN c - ch_0
  ELSE IF c >= ch_A /\ c <= ch_F THEN c - ch_A + 10
  ELSE c - ch_a + 10

\* parseByte without the look at the character after the two digits.
parseByte_two(buf, p) ==
  LET q  == SkipBlanks(buf, p)
      c1 == At(buf, q)
      c2 == At(buf, q + 1)
  IN  IF ~IsHexDigit(c1) THEN [ok |-> FALSE, val |-> 0, pos |-> q]
      ELSE IF ~IsHexDigit(c2) THEN [ok |-> FALSE, val |-> 0, pos |-> q + 1]
      ELSE [ok |-> TRUE,
            val |-> ((HexDigitValue(c1) * 16) + HexDigitValue(c2)) % 256,
            pos |-> q + 2]

\* parseByte: ok is FALSE where the C function calls raiseErr.
parseByte(buf, p) ==
  LET q  == SkipBlanks(buf, p)
      c1 == At(buf, q)
      c2 == At(buf, q + 1)
      c3 == At(buf, q + 2)
      r1 == ((0 * 16) + HexDigitValue(c1)) % 256
      r2 == ((r1 * 16) + HexDigitValue(c2)) % 256
  IN  IF ~IsHexDigit(c1) THEN [ok |-> FALSE, val |-> 0, pos |-> q]
      ELSE IF ~IsHexDigit(c2) THEN [ok |-> FALSE, val |-> 0, pos |-> q + 1]
      ELSE IF IsHexDigit(c3) THEN [ok |-> FALSE, val |-> 0, pos |-> q + 2]
      ELSE [ok |-> TRUE, val |-> r2, pos |-> q + 2]

\* The digit loop of parseInt, with its two overflow checks.
RECURSIVE parseIntDigits(_, _, _)
parseIntDigits(buf, p, result) ==
  IF At(buf, p) >= ch_0 /\ At(buf, p) <= ch_9
    THEN LET d == At(buf, p) - ch_0
         IN  IF ~(result <= INT32_MAX \div 10)
               THEN [ok |-> FALSE, val |-> 0, pos |-> p]
             ELSE IF ~(result * 10 <= INT32_MAX - d)
               THEN [ok |-> FALSE, val |-> 0, pos |-> p]
             ELSE parseIntDigits(buf, p + 1, result * 10 + d)
    ELSE [ok |-> TRUE, val |-> result, pos |-> p]

\* parseInt without the check that a decimal digit was found.
parseInt_nodigit(buf, p) == parseIntDigits(buf, SkipBlanks(buf, p), 0)

\* parseInt: ok is FALSE where the C function calls raiseErr.
parseInt(buf, p) ==
  LET q == SkipBlanks(buf, p)
  IN  IF At(buf, q) < ch_0 \/ At(buf, q) > ch_9
        THEN [ok |-> FALSE, val |-> 0, pos |-> q]
        ELSE parseIntDigits(buf, q, 0)

\* ------------------------------------------------------------------------
\* Sample offset of a clock value
\* ------------------------------------------------------------------------

\* SampleOffset as a whole number of samples per tick times the ticks.
SampleOffset_pertick(tv, sr, r) == (sr \div r) * tv

\* SampleOffset rounded to the nearest integer instead of floored.
SampleOffset_round(tv, sr, r) ==
  ((tv \div r) * sr) + (((2 * ((tv % r) * sr)) + r) \div (2 * r))

\* SampleOffset of the whole seconds of the clock only.
SampleOffset_seconds(tv, sr, r) == (tv \div r) * sr

\* floor((t * sample_rate) / rate), the value main() computes in double
\* arithmetic.  The product t * sample_rate is below 2^53 and so exact; the
\* quotient is a multiple of 1/rate with rate <= 1024, while the rounding
\* error of the division is below 1/(40 * rate), so the floor of the double
\* is the floor of the exact quotient.  It is computed here from the
\* quotient and remainder of t by rate, which keeps every intermediate
\* value within 32 bits.
SampleOffset(tv, sr, r) ==
  ((tv \div r) * sr) + (((tv % r) * sr) \div r)

\* The range test "so >= 0.0 && so <= INT32_MAX" on that value.
SampleOffsetInRange(tv, sr, r) ==
  /\ tv >= 0
  /\ (tv \div r) <= INT32_MAX \div sr
  /\ (((tv % r) * sr) \div r) <= INT32_MAX - ((tv \div r) * sr)

\* ------------------------------------------------------------------------
\* Sample buffer: flushBuffer and computeSamples
\* ------------------------------------------------------------------------

\* flushBuffer without the update of s_total.
flushBuffer_lost(b) ==
  IF b.fill > 0
    THEN [ok    |-> TRUE,
          fill  |-> 0,
          total |-> b.total,
          ev    |-> Append(b.ev, <<"fwrite", 0, b.fill>>)]
    ELSE b

\* flushBuffer on a buffer state b = [ok, fill, total, ev]: one bulk write
\* of the s_fill buffered samples, which are added to s_total.
flushBuffer(b) ==
  IF b.fill > 0
    THEN IF b.total <= INT32_MAX - b.fill
           THEN [ok    |-> TRUE,
                 fill  |-> 0,
                 total |-> b.total + b.fill,
                 ev    |-> Append(b.ev, <<"fwrite", 0, b.fill>>)]
           ELSE [ok    |-> FALSE,
                 fill  |-> b.fill,
                 total |-> b.total,
                 ev    |-> Append(b.ev, <<"fwrite", 0, b.fill>>)]
    ELSE b

\* BufferFull for a buffer that holds anything at all.
BufferFull_any(fill) == fill > 0

\* The buffer is completely filled.
BufferFull(fill) == fill >= BUFFER_SAMPLES

\* WorkCount as the whole request, whatever room the buffer has.
WorkCount_all(count, fill) == count

\* The number of samples one iteration of computeSamples generates.
WorkCount(count, fill) ==
  IF count < BUFFER_SAMPLES - fill THEN count ELSE BUFFER_SAMPLES - fill

\* The while loop of computeSamples.
RECURSIVE computeLoop(_, _)
computeLoop(count, b) ==
  IF count > 0
    THEN LET f == IF BufferFull(b.fill) THEN flushBuffer(b) ELSE b
             work == WorkCount(count, f.fill)
         IN  IF ~f.ok THEN f
             ELSE computeLoop(count - work,
                    [ok    |-> TRUE,
                     fill  |-> f.fill + work,
                     total |-> f.total,
                     ev    |-> Append(f.ev,
                                 <<"opl_generate", f.fill, work>>)])
    ELSE b

\* computeSamples with one sample less than was asked for.
computeSamples_short(count, b) ==
  IF count < 1
    THEN [ok |-> FALSE, fill |-> b.fill, total |-> b.total, ev |-> b.ev]
    ELSE computeLoop(count - 1, b)

\* computeSamples(count) started in the buffer state b.
computeSamples(count, b) ==
  IF count < 1
    THEN [ok |-> FALSE, fill |-> b.fill, total |-> b.total, ev |-> b.ev]
    ELSE computeLoop(count, b)

\* ------------------------------------------------------------------------
\* State
\* ------------------------------------------------------------------------

VARIABLES
  pc,           \* position of main(): "header", "body", "done", "error"
  sample_rate,  \* the output rate given on the command line
  rate,         \* the control rate of the header, 0 before it is read
  line_count,   \* number of lines read
  l_buf,        \* the line buffer
  t,            \* the virtual tick clock
  current,      \* the sample position
  s_fill,       \* number of samples in the sample buffer
  s_total,      \* number of samples written to the output file
  events,       \* calls of opl_init, opl_write, opl_generate, opl_finish
                \* and bulk writes <<"fwrite", 0, n>>, in order
  stdin,        \* the characters of standard input
  stdin_pos,    \* the number of characters read from standard input
  \* vgm2opl:
  file,         \* the bytes of the input file
  rep_count,    \* the repeat count given on the command line
  file_len,     \* 32-bit: end of the file, from the header
  data_offs,    \* 32-bit: start of the data section
  loop_offs,    \* 32-bit: loop offset, relative to data_offs once resolved
  full_length,  \* 32-bit: length of the data section
  data_len,     \* 32-bit: bytes of the data section left in this pass
  pData,        \* the data section read into memory
  pass,         \* the pass over the data section (i of the for loop)
  pd,           \* offset in pData of the next byte
  samp_offs,    \* source samples waited so far
  ctl_offs,     \* control ticks written so far
  out,          \* the lines written to standard output
  stderr        \* the error messages written, each with its argument

\* The state of the interpreter, of its line reader, and of vgm2opl.
interpVars == <<pc, sample_rate, rate, line_count, l_buf, t, current,
                s_fill, s_total, events>>
decoderVars == <<file, rep_count, file_len, data_offs, loop_offs,
                 full_length, data_len, pData, pass, pd, samp_offs,
                 ctl_offs, out, stderr>>

vars == <<interpVars, stdin, stdin_pos, decoderVars>>

\* vgm2opl is not running.
DecoderIdle ==
  /\ file = << >>
  /\ rep_count = 0
  /\ file_len = <<0, 0>>
  /\ data_offs = <<0, 0>>
  /\ loop_offs = <<0, 0>>
  /\ full_length = <<0, 0>>
  /\ data_len = <<0, 0>>
  /\ pData = << >>
  /\ pass = 0
  /\ pd = 0
  /\ samp_offs = 0
  /\ ctl_offs = 0
  /\ out = << >>
  /\ stderr = << >>

\* The two sampling rates main() accepts.
SampleRates == {44100, 48000}

\* main() up to the call of readHeader: the arguments are checked and the
\* driver is initialised.
Init ==
  /\ pc = "header"
  /\ sample_rate \in SampleRates
  /\ rate = 0
  /\ line_count = 0
  /\ l_buf = <<>>
  /\ t = 0
  /\ current = 0
  /\ s_fill = 0
  /\ s_total = 0
  /\ events = << <<"opl_init", sample_rate, 0>> >>
  /\ stdin = << >>
  /\ stdin_pos = 0
  /\ DecoderIdle

\* ------------------------------------------------------------------------
\* Input
\* ------------------------------------------------------------------------

\* The first lines of the scripts that are fed to the interpreter.
HeaderLines ==
  { Str(<<"O","P","L","2"," ","6","0">>),
    Str(<<"O","P","L","2"," ","1">>),
    Str(<<"O","P","L","2","\t","1","0","2","4"," ">>),
    Str(<<"O","P","L","2","0","0","6","0">>),
    Str(<<"O","P","L","2"," ","2","0","0","0">>),
    Str(<<"O","P","L","2"," ","1","0","2","5">>),
    Str(<<"O","P","L","2"," ","0">>),
    Str(<<"O","P","L","2"," ","6","0"," ","x">>),
    Str(<<"O","P","L","2"," ","6","0","x">>),
    Str(<<"O","P","L","2"," ","-","1">>),
    Str(<<"O","P","L","2"," ","9","9","9","9","9","9","9","9","9","9">>),
    Str(<<"O","P","L","2">>),
    Str(<<"O","P","L","3"," ","6","0">>),
    Str(<<"o","p","l","2"," ","6","0">>),
    Str(<<" ","O","P","L","2"," ","6","0">>),
    Str(<<"O","P">>),
    Str(<<>>) }

\* The lines that follow the header.
BodyLines ==
  { \* blank lines and comments
    Str(<<>>),
    Str(<<"\t"," ","\t">>),
    Str(<<"'">>),
    Str(<<"'","r"," ","2","0"," ","0","1">>),
    \* register writes
    Str(<<"r"," ","2","0"," ","0","1">>),
    Str(<<"r"," ","a","2"," ","8","7">>),
    Str(<<"r","\t","F","f","\t","\t","0","0"," ","\t">>),
    Str(<<"r"," ","2"," ","0","1">>),
    Str(<<"r"," ","2","0","0"," ","0","1">>),
    Str(<<"r"," ","2","0"," ","0","1","1">>),
    Str(<<"r"," ","2","0","0","1">>),
    Str(<<"r"," ","2","0"," ","0","1"," ","x">>),
    Str(<<"r"," ","2","0"," ","0","1","x">>),
    Str(<<"r"," ","2","0">>),
    Str(<<"r"," ","g","0"," ","0","1">>),
    Str(<<"r"," ","2","0"," ","0","g">>),
    Str(<<"r"," ">>),
    \* waits
    Str(<<"w"," ","0">>),
    Str(<<"w"," ","0","0"," ">>),
    Str(<<"w"," ","1">>),
    Str(<<"w","\t"," ","2","\t">>),
    Str(<<"w"," ","0","0","7">>),
    Str(<<"w"," ","2","1","4","7","4","8","3","6","4","7">>),
    Str(<<"w"," ","2","1","4","7","4","8","3","6","4","8">>),
    Str(<<"w"," ","9","9","9","9","9","9","9","9","9","9","9">>),
    Str(<<"w"," ","5"," ","x">>),
    Str(<<"w"," ","5","x">>),
    Str(<<"w"," ","-","1">>),
    Str(<<"w"," ","a">>),
    Str(<<"w"," ">>),
    \* lines that are no command
    Str(<<"r">>),
    Str(<<"w">>),
    Str(<<"r","2","0"," ","0","1">>),
    Str(<<"w","5">>),
    Str(<<"r","r"," ","2","0"," ","0","1">>),
    Str(<<" ","r"," ","2","0"," ","0","1">>),
    Str(<<" "," ","r"," ","2","0"," ","0","1">>),
    Str(<<"\t","w"," ","1">>),
    Str(<<" ","\t","w"," ","1">>),
    Str(<<"R"," ","2","0"," ","0","1">>),
    Str(<<"W"," ","1">>),
    Str(<<"x"," ","2","0"," ","0","1">>),
    Str(<<"O","P","L","2"," ","6","0">>),
    Str(<<"x">>),
    Str(<<" ","'">>) }

\* ------------------------------------------------------------------------
\* Header
\* ------------------------------------------------------------------------

\* RateInRange with the upper limit mistyped.
RateInRange_wide(ctl_rate) == ~((ctl_rate < 1) \/ (ctl_rate > 10240))

\* The range test of readHeader on the parsed control rate.
RateInRange(ctl_rate) == ~((ctl_rate < 1) \/ (ctl_rate > 1024))

\* readHeader on the line that was read: ok is FALSE where it calls
\* raiseErr.
readHeader(line) ==
  IF ~(/\ At(line, 0) = ch_O /\ At(line, 1) = ch_P
       /\ At(line, 2) = ch_L /\ At(line, 3) = ch_2)
    THEN [ok |-> FALSE, rate |-> 0]
  ELSE LET pi == parseInt(line, 4)
       IN  IF ~pi.ok THEN [ok |-> FALSE, rate |-> 0]
           ELSE IF ~RateInRange(pi.val) THEN [ok |-> FALSE, rate |-> 0]
           ELSE IF ~isBlankStr(line, pi.pos) THEN [ok |-> FALSE, rate |-> 0]
           ELSE [ok |-> TRUE, rate |-> pi.val]

\* exit(1): the program stops where it is.
raiseErr == pc' = "error"

\* readInput finds a first line, readHeader parses it, and the WAV output
\* is opened.
ReadHeaderLine(line) ==
  /\ pc = "header"
  /\ line_count' = line_count + 1
  /\ l_buf' = line
  /\ LET h == readHeader(line)
     IN  IF h.ok
           THEN pc' = "body" /\ rate' = h.rate
           ELSE raiseErr /\ rate' = rate
  /\ UNCHANGED <<sample_rate, t, current, s_fill, s_total, events>>
  /\ UNCHANGED <<stdin, stdin_pos, decoderVars>>

\* readInput finds no line at all: "Failed to read header line!".
HeaderEOF ==
  /\ pc = "header"
  /\ raiseErr
  /\ UNCHANGED <<sample_rate, rate, line_count, l_buf, t, current,
                 s_fill, s_total, events>>
  /\ UNCHANGED <<stdin, stdin_pos, decoderVars>>

\* ------------------------------------------------------------------------
\* Body
\* ------------------------------------------------------------------------

\* The line is skipped or the program stops: nothing but pc changes.
Skip == pc' = "body" /\ UNCHANGED <<t, current, s_fill, s_total, events>>

Abort == raiseErr /\ UNCHANGED <<t, current, s_fill, s_total, events>>

\* "If this line is blank or starts with an apostrophe, skip it".
IsSkipped(line) == (At(line, 0) = ch_APOS) \/ isBlankStr(line, 0)

\* SecondIsBlank with the test left out.
SecondIsBlank_any(line) == TRUE

\* "Second character must be space or tab".
SecondIsBlank(line) ==
  ~((At(line, 1) # ch_SP) /\ (At(line, 1) # ch_TAB))

\* RegisterWrites with the register written before the rest of the line is
\* checked.
RegisterWrites_early(pa, pv, blank) ==
  IF pa.ok /\ pv.ok
    THEN << <<"opl_write", pa.val, pv.val>> >>
    ELSE << >>

\* RegisterWrites with the two arguments of opl_write exchanged.
RegisterWrites_swapped(pa, pv, blank) ==
  IF pa.ok /\ pv.ok /\ blank
    THEN << <<"opl_write", pv.val, pa.val>> >>
    ELSE << >>

\* The calls of opl_write the register command makes, given the results
\* of its two parseByte calls and of its isBlankStr call.
RegisterWrites(pa, pv, blank) ==
  IF pa.ok /\ pv.ok /\ blank
    THEN << <<"opl_write", pa.val, pv.val>> >>
    ELSE << >>

\* The register command.
RegisterCommand(line) ==
  LET pa == parseByte(line, 1)
      pv == parseByte(line, pa.pos)
      blank == isBlankStr(line, pv.pos)
  IN  /\ events' = events \o RegisterWrites(pa, pv, blank)
      /\ IF pa.ok /\ pv.ok /\ blank THEN pc' = "body" ELSE raiseErr
      /\ UNCHANGED <<t, current, s_fill, s_total>>

\* AddTicks with the parsed count taken off the clock.
AddTicks_neg(tv, iv32) == tv - iv32

\* AddTicks with the parsed count stored instead of added.
AddTicks_assign(tv, iv32) == iv32

\* "Update the t value": the sum that is stored in t.
AddTicks(tv, iv32) == tv + iv32

\* AdvanceTo with a position that does not advance passed over in silence.
AdvanceTo_lenient(soi) ==
  IF soi <= current
    THEN pc' = "body" /\ UNCHANGED <<current, s_fill, s_total, events>>
    ELSE LET b == computeSamples(soi - current,
                    [ok |-> TRUE, fill |-> s_fill, total |-> s_total,
                     ev |-> events])
         IN  /\ s_fill' = b.fill
             /\ s_total' = b.total
             /\ events' = b.ev
             /\ IF b.ok
                  THEN pc' = "body" /\ current' = soi
                  ELSE raiseErr /\ current' = current

\* "Compute samples so as to bring current sample offset up to the soi we
\* just computed", after the test that soi lies beyond current.
AdvanceTo(soi) ==
  IF soi <= current
    THEN raiseErr /\ UNCHANGED <<current, s_fill, s_total, events>>
    ELSE LET b == computeSamples(soi - current,
                    [ok |-> TRUE, fill |-> s_fill, total |-> s_total,
                     ev |-> events])
         IN  /\ s_fill' = b.fill
             /\ s_total' = b.total
             /\ events' = b.ev
             /\ IF b.ok
                  THEN pc' = "body" /\ current' = soi
                  ELSE raiseErr /\ current' = current

\* The wait command.
WaitCommand(line) ==
  LET pi == parseInt(line, 1)
  IN  IF ~pi.ok \/ ~isBlankStr(line, pi.pos) THEN Abort
      ELSE IF ~(t <= INT32_MAX - pi.val) THEN Abort
      ELSE /\ t' = AddTicks(t, pi.val)
           /\ IF ~SampleOffsetInRange(t', sample_rate, rate)
                THEN raiseErr
                     /\ UNCHANGED <<current, s_fill, s_total, events>>
                ELSE AdvanceTo(SampleOffset(t', sample_rate, rate))

\* One iteration of the main loop: readInput reads a line, which is then
\* processed.
MainLoopBody(line) ==
  /\ pc = "body"
  /\ line_count' = line_count + 1
  /\ l_buf' = line
  /\ IF IsSkipped(line) THEN Skip
     ELSE IF ~SecondIsBlank(line) THEN Abort
     ELSE IF At(line, 0) = ch_r THEN RegisterCommand(line)
     ELSE IF At(line, 0) = ch_w THEN WaitCommand(line)
     ELSE Abort
  /\ UNCHANGED <<sample_rate, rate>>
  /\ UNCHANGED <<stdin, stdin_pos, decoderVars>>

\* An iteration of the main loop on one of the first MaxLines lines of
\* the body.
BodyLine(line) ==
  /\ line_count < 1 + MaxLines
  /\ MainLoopBody(line)

\* The size computations of finishWAV on the final sample count.
SizesFit(total) ==
  /\ total <= INT32_MAX \div 2
  /\ total * 2 <= INT32_MAX - 36

\* readInput reports the end of input: opl_finish, then finishWAV, which
\* flushes the sample buffer and completes the WAV header.
BodyEOF ==
  /\ pc = "body"
  /\ LET b == flushBuffer(
                [ok |-> TRUE, fill |-> s_fill, total |-> s_total,
                 ev |-> Append(events, <<"opl_finish", 0, 0>>)])
     IN  /\ s_fill' = b.fill
         /\ s_total' = b.total
         /\ events' = b.ev
         /\ IF b.ok /\ SizesFit(b.total) THEN pc' = "done" ELSE raiseErr
  /\ UNCHANGED <<sample_rate, rate, line_count, l_buf, t, current>>
  /\ UNCHANGED <<stdin, stdin_pos, decoderVars>>

Next ==
  \/ \E line \in HeaderLines : ReadHeaderLine(line)
  \/ HeaderEOF
  \/ \E line \in BodyLines : BodyLine(line)
  \/ BodyEOF

Spec == Init /\ [][Next]_vars

\* ------------------------------------------------------------------------
\* The sample script of the documentation
\* ------------------------------------------------------------------------

\* The header of the sample script.
SampleHeaders == { Str(<<"O","P","L","2"," ","6","0">>) }

\* The lines of the sample script (its register write, its wait), with a
\* comment, a short wait and a line that is no command.
SampleBody ==
  { Str(<<"r"," ","2","0"," ","0","1">>),
    Str(<<"w"," ","1","2","0">>),
    Str(<<"w"," ","1">>),
    Str(<<"'">>),
    Str(<<"x">>) }

NextSample ==
  \/ \E line \in SampleHeaders : ReadHeaderLine(line)
  \/ HeaderEOF
  \/ \E line \in SampleBody : BodyLine(line)
  \/ BodyEOF

\* The interpreter run on scripts made of the lines of the sample script.
SpecSample == Init /\ [][NextSample]_vars

\* ------------------------------------------------------------------------
\* The conversion of ticks to samples, tick by tick over one second
\* ------------------------------------------------------------------------

\* Every control rate readHeader accepts.
ControlRates == 1..1024

\* The sample offset of the clock value 0 for some control rate and some
\* sampling rate.
InitConvert ==
  /\ pc = "convert"
  /\ sample_rate \in SampleRates
  /\ rate \in ControlRates
  /\ line_count = 0
  /\ l_buf = <<>>
  /\ t = 0
  /\ current = SampleOffset(0, sample_rate, rate)
  /\ s_fill = 0
  /\ s_total = 0
  /\ events = << >>
  /\ stdin = << >>
  /\ stdin_pos = 0
  /\ DecoderIdle

\* The sample offset of the next clock value, up to one second.
Convert ==
  /\ pc = "convert"
  /\ t < rate
  /\ t' = t + 1
  /\ current' = SampleOffset(t', sample_rate, rate)
  /\ UNCHANGED <<pc, sample_rate, rate, line_count, l_buf, s_fill,
                 s_total, events>>
  /\ UNCHANGED <<stdin, stdin_pos, decoderVars>>

NextConvert == Convert

SpecConvert == InitConvert /\ [][NextConvert]_vars

\* ------------------------------------------------------------------------
\* The line reader, character by character
\* ------------------------------------------------------------------------

\* Longest input given to the line reader.
MaxInput == 4

LINE_MAXIMUM == 1023

EOF == -1
ch_LF == 10
ch_CR == 13

\* getchar() at the position pos of the input in.
getchar(in, pos) == IF pos < Len(in) THEN in[pos + 1] ELSE EOF

\* The position after getchar(): the end of the input is not passed.
AfterGetchar(in, pos) == IF pos < Len(in) THEN pos + 1 ELSE pos

\* FollowsCR with anything accepted after a CR.
FollowsCR_any(c) == TRUE

\* The character read after a CR is the one that may follow it.
FollowsCR(c) == c = ch_LF

\* The character may be stored in the line buffer.
IsLineChar(c) == c = ch_TAB \/ (c >= 32 /\ c <= 126)

\* The processing loop of readInput, entered with the character c, the
\* line buffer buf and the input in read up to pos.
RECURSIVE readLoop(_, _, _, _)
readLoop(c, buf, in, pos) ==
  LET c2   == IF c = ch_CR THEN getchar(in, pos) ELSE c
      pos2 == IF c = ch_CR THEN AfterGetchar(in, pos) ELSE pos
  IN  IF c = ch_CR /\ ~FollowsCR(c2)
        THEN [ret |-> "error", buf |-> buf, pos |-> pos2]
      ELSE IF c2 = ch_LF
        THEN [ret |-> "line", buf |-> buf, pos |-> pos2]
      ELSE IF ~IsLineChar(c2)
        THEN [ret |-> "error", buf |-> buf, pos |-> pos2]
      ELSE IF Len(buf) >= LINE_MAXIMUM
        THEN [ret |-> "error", buf |-> buf, pos |-> pos2]
      ELSE LET c3 == getchar(in, pos2)
           IN  IF c3 = EOF
                 THEN [ret |-> "line", buf |-> Append(buf, c2),
                       pos |-> pos2]
                 ELSE readLoop(c3, Append(buf, c2), in, pos2 + 1)

\* readInput() on the input in read up to pos, with count lines read
\* before: "eof" stands for the return value 0, "line" for 1, "error" for
\* raiseErr.
readInput(in, pos, count) ==
  IF getchar(in, pos) = EOF
    THEN [ret |-> "eof", buf |-> << >>, pos |-> pos]
  ELSE IF ~(count < INT32_MAX)
    THEN [ret |-> "error", buf |-> << >>, pos |-> pos + 1]
  ELSE readLoop(getchar(in, pos), << >>, in, pos + 1)

\* The characters of the inputs given to the line reader: TAB, LF, CR, a
\* letter and DEL.
InputChars == {ch_TAB, ch_LF, ch_CR, ch_w, 127}

RECURSIVE Inputs(_)
Inputs(n) ==
  IF n = 0 THEN { << >> }
  ELSE LET shorter == Inputs(n - 1)
       IN  shorter \cup
           { Append(in, c) : in \in { x \in shorter : Len(x) = n - 1 },
                             c \in InputChars }

\* The interpreter is about to read a line of some input.
InitReader ==
  /\ pc = "read"
  /\ sample_rate \in SampleRates
  /\ rate = 0
  /\ line_count = 0
  /\ l_buf = << >>
  /\ t = 0
  /\ current = 0
  /\ s_fill = 0
  /\ s_total = 0
  /\ events = << <<"opl_init", sample_rate, 0>> >>
  /\ stdin \in Inputs(MaxInput)
  /\ stdin_pos = 0
  /\ DecoderIdle

\* One call of readInput.
ReadInput ==
  /\ pc = "read"
  /\ LET r == readInput(stdin, stdin_pos, line_count)
     IN  /\ stdin_pos' = r.pos
         /\ IF r.ret = "eof"
              THEN pc' = "eof" /\ UNCHANGED <<line_count, l_buf>>
              ELSE /\ line_count' = IF line_count < INT32_MAX
                                      THEN line_count + 1 ELSE line_count
                   /\ l_buf' = r.buf
                   /\ IF r.ret = "line" THEN pc' = "read" ELSE raiseErr
  /\ UNCHANGED <<sample_rate, rate, t, current, s_fill, s_total, events>>
  /\ UNCHANGED <<stdin, decoderVars>>

NextReader == ReadInput

SpecReader == InitReader /\ [][NextReader]_vars

\* ------------------------------------------------------------------------
\* vgm2opl: 32-bit unsigned values
\* ------------------------------------------------------------------------

\* A uint32_t is the pair <<high 16 bits, low 16 bits>>.
U32Of(n) == <<n \div 65536, n % 65536>>

\* Sum and difference modulo 2^32.
U32Add(a, b) ==
  LET lo == a[2] + b[2]
  IN  <<(a[1] + b[1] + (lo \div 65536)) % 65536, lo % 65536>>

U32Sub(a, b) ==
  LET borrow == IF a[2] < b[2] THEN 1 ELSE 0
  IN  <<((a[1] + 65536) - b[1] - borrow) % 65536,
        ((a[2] + 65536) - b[2]) % 65536>>

U32Lt(a, b) == a[1] < b[1] \/ (a[1] = b[1] /\ a[2] < b[2])

U32Le(a, b) == ~U32Lt(b, a)

\* The number a 32-bit value stands for, when it is below 2^31.
U32Val(a) == (a[1] * 65536) + a[2]

\* MAX_DATA_SECTION as the largest 32-bit value.
MAX_DATA_SECTION_none == <<65535, 65535>>

MAX_DATA_SECTION == U32Of(16 * 1024 * 1024)

\* "Vgm " read as a little-endian dword, 0x206d6756.
VGM_IDENT == <<8301, 26454>>

\* ------------------------------------------------------------------------
\* vgm2opl: the header
\* ------------------------------------------------------------------------

\* The four bytes at the offset offs of the file can be read.
CanRead(f, offs) == offs + 4 <= Len(f)

\* readDword() after a seek to offs: four bytes in little-endian order.
readDword(f, offs) ==
  <<f[offs + 3] + (256 * f[offs + 4]), f[offs + 1] + (256 * f[offs + 2])>>

\* The result of a header resolution that stops on an error.
HeaderError(msg) ==
  [err |-> msg, file_len |-> <<0, 0>>, data_offs |-> <<0, 0>>,
   loop_offs |-> <<0, 0>>, data_len |-> <<0, 0>>]

\* The loop offset read from the header, "or zero if no specific loop
\* offset".
HeaderLoop(f) ==
  LET loop == U32Add(readDword(f, 28), U32Of(28))
  IN  IF U32Le(loop, U32Of(28)) THEN <<0, 0>> ELSE loop

\* HeaderData without the test of the version.
HeaderData_anyversion(f) ==
  LET data == U32Add(readDword(f, 52), U32Of(52))
  IN  IF U32Le(data, U32Of(52)) THEN U32Of(64) ELSE data

\* The data offset: 0x40 unless the version is at least 1.50 and the
\* header value at 0x34 gives an offset above 52.
HeaderData(f) ==
  IF U32Le(U32Of(336), readDword(f, 8))
    THEN LET data == U32Add(readDword(f, 52), U32Of(52))
         IN  IF U32Le(data, U32Of(52)) THEN U32Of(64) ELSE data
    ELSE U32Of(64)

\* LoopInvalid without the comparison to the file length.
LoopInvalid_low(loop, data, len) == U32Lt(loop, data)

\* "Loop offset must be at least data_offs and less than file length".
LoopInvalid(loop, data, len) == U32Lt(loop, data) \/ U32Le(len, loop)

\* main() from the check of the file type to the computation of the data
\* length: the values of file_len, data_offs, loop_offs and data_len, or
\* the error it stops on.
resolveHeader(f) ==
  IF ~CanRead(f, 0) THEN HeaderError("Failed to read byte!")
  ELSE IF readDword(f, 0) # VGM_IDENT
    THEN HeaderError("Input file not a VGM file!")
  ELSE IF ~CanRead(f, 28) THEN HeaderError("Failed to read byte!")
  ELSE IF U32Le(U32Of(336), readDword(f, 8)) /\ ~CanRead(f, 52)
    THEN HeaderError("Failed to read byte!")
  ELSE
    LET len  == U32Add(readDword(f, 4), U32Of(4))
        data == HeaderData(f)
        loop == IF U32Le(HeaderLoop(f), <<0, 0>>)
                  THEN data ELSE HeaderLoop(f)
    IN  IF LoopInvalid(loop, data, len)
          THEN HeaderError("Invalid looping offset!")
        ELSE IF U32Le(len, data)
          THEN HeaderError("Improper data offset and file length!")
        ELSE IF U32Lt(MAX_DATA_SECTION, U32Sub(len, data))
          THEN HeaderError("VGM file is too large!")
        ELSE [err |-> "", file_len |-> len, data_offs |-> data,
              loop_offs |-> U32Sub(loop, data),
              data_len |-> U32Sub(len, data)]

\* raiseErr() of vgm2opl after the message msg with the argument arg.
vgmErr(msg, arg) ==
  /\ pc' = "error"
  /\ stderr' = Append(stderr, <<msg, arg>>)

\* The header is resolved.  When the program stops on an error its local
\* variables are left as they were: they are not seen again.
ResolveHeader ==
  /\ pc = "vgm_open"
  /\ LET h == resolveHeader(file)
     IN  IF h.err = ""
           THEN /\ pc' = "vgm_resolved"
                /\ file_len' = h.file_len
                /\ data_offs' = h.data_offs
                /\ loop_offs' = h.loop_offs
                /\ data_len' = h.data_len
                /\ full_length' = h.data_len
                /\ UNCHANGED stderr
           ELSE /\ vgmErr(h.err, 0)
                /\ UNCHANGED <<file_len, data_offs, loop_offs, data_len,
                               full_length>>
  /\ UNCHANGED <<file, rep_count, pData, pass, pd, samp_offs, ctl_offs,
                 out>>
  /\ UNCHANGED <<sample_rate, rate, line_count, l_buf, t, current,
                 s_fill, s_total, events, stdin, stdin_pos>>

\* The data section is read into memory and the header line is written.
\* fread() gets all of the data section only if the file has that many
\* bytes after data_offs.
LoadData ==
  /\ pc = "vgm_resolved"
  /\ IF U32Le(file_len, U32Of(Len(file)))
       THEN /\ pc' = "vgm_pass"
            /\ pData' = SubSeq(file, U32Val(data_offs) + 1,
                               U32Val(file_len))
            /\ out' = Append(out, Str(<<"O","P","L","2"," ","9","8","0">>))
            /\ UNCHANGED stderr
       ELSE /\ vgmErr("Read failed!", 0)
            /\ UNCHANGED <<pData, out>>
  /\ UNCHANGED <<file, rep_count, file_len, data_offs, loop_offs,
                 full_length, data_len, pass, pd, samp_offs, ctl_offs>>
  /\ UNCHANGED <<sample_rate, rate, line_count, l_buf, t, current,
                 s_fill, s_total, events, stdin, stdin_pos>>

\* ------------------------------------------------------------------------
\* vgm2opl: the walk over the data section
\* ------------------------------------------------------------------------

\* The digit d of printf's %x.
HexDigitChar(d) == IF d < 10 THEN ch_0 + d ELSE ch_a + (d - 10)

\* Hex2 with the low digit first.
Hex2_swapped(b) == <<HexDigitChar(b % 16), HexDigitChar(b \div 16)>>

\* printf's %02x of a byte.
Hex2(b) == <<HexDigitChar(b \div 16), HexDigitChar(b % 16)>>

\* printf's %ld of a number that is not negative.
RECURSIVE Decimal(_)
Decimal(n) ==
  IF n < 10 THEN <<ch_0 + n>>
  ELSE Append(Decimal(n \div 10), ch_0 + (n % 10))

\* The line of printf("r %02x %02x\n", a, v), without its line end.
RegisterText(a, v) == <<ch_r, ch_SP>> \o Hex2(a) \o <<ch_SP>> \o Hex2(v)

\* WaitText without the space after the letter.
WaitText_nospace(n) == <<ch_w>> \o Decimal(n)

\* The line of printf("w %ld\n", n), without its line end.
WaitText(n) == <<ch_w, ch_SP>> \o Decimal(n)

\* IsShortWait for no opcode at all.
IsShortWait_none(op) == FALSE

\* The opcode is a "shorthand wait command", 0x70 to 0x7f.
IsShortWait(op) == op >= 112 /\ op <= 127

\* decodeOp with every opcode the end marker.
decodeOp_end(data, p, len) ==
  [kind |-> "end", wait_req |-> 0, text |-> << >>, skip |-> 0,
   msg |-> "", arg |-> 0]

\* decodeOp with every opcode a wait of one sample.
decodeOp_wait(data, p, len) ==
  [kind |-> "wait", wait_req |-> 1, text |-> << >>, skip |-> 0,
   msg |-> "", arg |-> 0]

\* What the branches on the opcode at the offset p of the data section
\* come to, with len bytes left: the end of the pass, a wait request, a
\* register line, or an error; skip is the number of parameter bytes.
decodeOp(data, p, len) ==
  LET op == data[p + 1]
      none == [kind |-> "end", wait_req |-> 0, text |-> << >>,
               skip |-> 0, msg |-> "", arg |-> 0]
  IN  IF op = 102 THEN none
      ELSE IF IsShortWait(op)
        THEN [none EXCEPT !.kind = "wait", !.wait_req = (op - 112) + 1]
      ELSE IF op = 99
        THEN [none EXCEPT !.kind = "wait", !.wait_req = 882]
      ELSE IF op = 98
        THEN [none EXCEPT !.kind = "wait", !.wait_req = 735]
      ELSE IF op = 97
        THEN IF U32Lt(len, U32Of(3))
               THEN [none EXCEPT !.kind = "error",
                       !.msg = "VGM opcode missing parameters!"]
               ELSE [none EXCEPT !.kind = "wait",
                       !.wait_req = data[p + 2] + (256 * data[p + 3]),
                       !.skip = 2]
      ELSE IF op = 90
        THEN IF U32Lt(len, U32Of(3))
               THEN [none EXCEPT !.kind = "error",
                       !.msg = "VGM opcode missing parameters!"]
               ELSE [none EXCEPT !.kind = "write",
                       !.text = RegisterText(data[p + 2], data[p + 3]),
                       !.skip = 2]
      ELSE [none EXCEPT !.kind = "error",
              !.msg = "Unsupported VGM opcode 0x%02x!", !.arg = op]

\* ControlOffset rounded up.
ControlOffset_ceil(samp) == (samp + 44) \div 45

\* floor((samp * 980.0) / 44100.0), computed without a product above
\* 2^31: the double quotient has the exact floor for every samp of 32
\* bits.
ControlOffset(samp) ==
  ((samp \div 44100) * 980) + (((samp % 44100) * 980) \div 44100)

\* HandleWait with a wait request of zero refused.
HandleWait_strict(wait_req) ==
  IF wait_req < 1 \/ ~(samp_offs <= INT32_MAX - wait_req)
    THEN /\ vgmErr("Sample count overflow!", 0)
         /\ UNCHANGED <<samp_offs, ctl_offs, out>>
  ELSE LET new_ctl == ControlOffset(samp_offs + wait_req)
       IN  /\ pc' = "vgm_walk"
           /\ samp_offs' = samp_offs + wait_req
           /\ IF new_ctl > ctl_offs
                THEN /\ out' = Append(out, WaitText(new_ctl - ctl_offs))
                     /\ ctl_offs' = new_ctl
                ELSE UNCHANGED <<out, ctl_offs>>
           /\ UNCHANGED stderr

\* The handling of a wait request: the sample offset advances, and a wait
\* line is written when the control offset advances.
HandleWait(wait_req) ==
  IF wait_req < 1
    THEN /\ pc' = "vgm_walk"
         /\ UNCHANGED <<samp_offs, ctl_offs, out, stderr>>
  ELSE IF ~(samp_offs <= INT32_MAX - wait_req)
    THEN /\ vgmErr("Sample count overflow!", 0)
         /\ UNCHANGED <<samp_offs, ctl_offs, out>>
  ELSE LET new_ctl == ControlOffset(samp_offs + wait_req)
       IN  /\ pc' = "vgm_walk"
           /\ samp_offs' = samp_offs + wait_req
           /\ IF new_ctl > ctl_offs
                THEN /\ out' = Append(out, WaitText(new_ctl - ctl_offs))
                     /\ ctl_offs' = new_ctl
                ELSE UNCHANGED <<out, ctl_offs>>
           /\ UNCHANGED stderr

\* PassOrigin with every pass started at the beginning.
PassOrigin_begin(i) == 0

\* The offset in the data section at which the pass i starts: "if this is
\* a loop, advance the loop offset".
PassOrigin(i) == IF i > 0 THEN U32Val(loop_offs) ELSE 0

\* PassStart with the whole length of the data section left in every
\* pass.
PassStart_whole ==
  /\ pc = "vgm_pass"
  /\ IF pass < rep_count
       THEN /\ pc' = "vgm_walk"
            /\ pd' = PassOrigin(pass)
            /\ data_len' = full_length
       ELSE /\ pc' = "vgm_done"
            /\ UNCHANGED <<pd, data_len>>
  /\ UNCHANGED <<file, rep_count, file_len, data_offs, loop_offs,
                 full_length, pData, pass, samp_offs, ctl_offs, out,
                 stderr>>
  /\ UNCHANGED <<sample_rate, rate, line_count, l_buf, t, current,
                 s_fill, s_total, events, stdin, stdin_pos>>

\* The head of the for loop: the next pass starts at the beginning of the
\* data section, or at the loop offset when it is not the first; after
\* the last pass main() returns.
PassStart ==
  /\ pc = "vgm_pass"
  /\ IF pass < rep_count
       THEN /\ pc' = "vgm_walk"
            /\ pd' = PassOrigin(pass)
            /\ data_len' = U32Sub(full_length, U32Of(PassOrigin(pass)))
       ELSE /\ pc' = "vgm_done"
            /\ UNCHANGED <<pd, data_len>>
  /\ UNCHANGED <<file, rep_count, file_len, data_offs, loop_offs,
                 full_length, pData, pass, samp_offs, ctl_offs, out,
                 stderr>>
  /\ UNCHANGED <<sample_rate, rate, line_count, l_buf, t, current,
                 s_fill, s_total, events, stdin, stdin_pos>>

\* One test of the while loop and, when data remains, one iteration.
WalkStep ==
  /\ pc = "vgm_walk"
  /\ IF data_len = <<0, 0>>
       THEN /\ pc' = "vgm_pass"
            /\ pass' = pass + 1
            /\ UNCHANGED <<pd, data_len, samp_offs, ctl_offs, out, stderr>>
       ELSE LET d == decodeOp(pData, pd, data_len)
            IN  IF d.kind = "end"
                  THEN /\ pc' = "vgm_pass"
                       /\ pass' = pass + 1
                       /\ UNCHANGED <<pd, data_len, samp_offs, ctl_offs,
                                      out, stderr>>
                ELSE IF d.kind = "error"
                  THEN /\ vgmErr(d.msg, d.arg)
                       /\ UNCHANGED <<pd, data_len, pass, samp_offs,
                                      ctl_offs, out>>
                ELSE /\ IF d.kind = "write"
                          THEN /\ pc' = "vgm_walk"
                               /\ out' = Append(out, d.text)
                               /\ UNCHANGED <<samp_offs, ctl_offs, stderr>>
                          ELSE HandleWait(d.wait_req)
                     /\ IF pc' = "error"
                          THEN UNCHANGED <<pd, data_len>>
                          ELSE /\ pd' = pd + d.skip + 1
                               /\ data_len' =
                                    U32Sub(data_len, U32Of(d.skip + 1))
                     /\ UNCHANGED pass
  /\ UNCHANGED <<file, rep_count, file_len, data_offs, loop_offs,
                 full_length, pData>>
  /\ UNCHANGED <<sample_rate, rate, line_count, l_buf, t, current,
                 s_fill, s_total, events, stdin, stdin_pos>>

\* ------------------------------------------------------------------------
\* vgm2opl: input files
\* ------------------------------------------------------------------------

\* Longest data section of the files with a regular header.
MaxData == 3

\* The byte j (0 first) of a 32-bit value in little-endian order.
LEByte(v, j) ==
  IF j = 0 THEN v[2] % 256
  ELSE IF j = 1 THEN v[2] \div 256
  ELSE IF j = 2 THEN v[1] % 256
  ELSE v[1] \div 256

\* A file with the identifier at 0x00, the end-of-file value at 0x04, the
\* version at 0x08, the loop value at 0x1c, the data value at 0x34, zeros
\* in the rest of the 64 bytes of the header, and then the bytes of body.
MakeFile(ident, eofv, ver, loopv, datav, body) ==
  [k \in 1..64 |->
     LET o == k - 1
     IN  IF o < 4 THEN LEByte(ident, o)
         ELSE IF o < 8 THEN LEByte(eofv, o - 4)
         ELSE IF o < 12 THEN LEByte(ver, o - 8)
         ELSE IF o >= 28 /\ o < 32 THEN LEByte(loopv, o - 28)
         ELSE IF o >= 52 /\ o < 56 THEN LEByte(datav, o - 52)
         ELSE 0] \o body

\* Header values: versions 1.00, 1.50 and 0xffffffff.
Versions == { U32Of(256), U32Of(336), <<65535, 65535>> }

\* End-of-file values around the size of a file of 66 bytes, around the
\* largest data section, and around 2^32.
EofValues ==
  { U32Of(60), U32Of(61), U32Of(62), <<256, 60>>, <<256, 61>>,
    <<65535, 65531>>, <<65535, 65532>>, <<65535, 65535>> }

\* Loop values: none, before, at and after the start of the data, at the
\* end of the file, and values that wrap when 0x1c is added.
LoopValues ==
  { U32Of(0), U32Of(1), U32Of(36), U32Of(37), U32Of(38),
    <<65535, 65506>>, <<65535, 65508>>, <<65535, 65535>> }

\* Data values: none, within the header, the usual 0x0c, one more, and
\* values that wrap when 0x34 is added.
DataValues ==
  { U32Of(0), U32Of(1), U32Of(12), U32Of(13),
    <<65535, 65482>>, <<65535, 65484>>, <<65535, 65535>> }

\* Files of 66 bytes that differ in their header, with the two bytes of
\* body as data; a file that is no VGM file; a file that ends in its
\* header.
HeaderFiles(body) ==
  { MakeFile(VGM_IDENT, e, v, l, d, body) :
      e \in EofValues, v \in Versions, l \in LoopValues, d \in DataValues }
  \cup { MakeFile(U32Of(0), U32Of(62), U32Of(336), U32Of(0), U32Of(12),
                  body),
         SubSeq(MakeFile(VGM_IDENT, U32Of(62), U32Of(336), U32Of(0),
                         U32Of(12), << >>), 1, 40) }

\* The bytes of the data sections: 0x00, the register write 0x5a, the
\* waits 0x61 and 0x62, the end marker 0x66, and the short wait 0x7a.
DataBytes == {0, 90, 97, 98, 102, 122}

RECURSIVE DataSections(_)
DataSections(n) ==
  IF n = 1 THEN { <<b>> : b \in DataBytes }
  ELSE LET shorter == DataSections(n - 1)
       IN  shorter \cup
           { Append(ds, b) : ds \in { x \in shorter : Len(x) = n - 1 },
                             b \in DataBytes }

\* Longer data sections: register writes between waits of every kind
\* with the end marker; a long wait, a wait of nothing and a write; short
\* waits and a write without an end marker.
Songs ==
  { <<90, 162, 135, 98, 90, 32, 1, 122, 102>>,
    <<97, 16, 39, 90, 0, 255, 99, 97, 0, 0, 102>>,
    <<112, 112, 90, 176, 49, 127>> }

\* Files of version 1.51 with a data section at 0x40, the file length of
\* the header true to the file, and no loop offset or a loop offset at
\* any byte of the data; the data sections are those of up to n bytes
\* and the longer ones.
StreamFiles(n) ==
  UNION { { MakeFile(VGM_IDENT, U32Of(60 + Len(ds)), U32Of(337), U32Of(l),
                     U32Of(12), ds) :
              l \in {0} \cup { 36 + k : k \in 0..(Len(ds) - 1) } } :
          ds \in DataSections(n) \cup Songs }

\* main() of vgm2opl after its arguments are checked and the file is open.
InitVgm ==
  /\ pc = "vgm_open"
  /\ sample_rate = 44100
  /\ rate = 0
  /\ line_count = 0
  /\ l_buf = << >>
  /\ t = 0
  /\ current = 0
  /\ s_fill = 0
  /\ s_total = 0
  /\ events = << >>
  /\ stdin = << >>
  /\ stdin_pos = 0
  /\ file \in HeaderFiles(<<99, 102>>) \cup StreamFiles(MaxData)
  /\ rep_count \in {1, 2}
  /\ file_len = <<0, 0>>
  /\ data_offs = <<0, 0>>
  /\ loop_offs = <<0, 0>>
  /\ full_length = <<0, 0>>
  /\ data_len = <<0, 0>>
  /\ pData = << >>
  /\ pass = 0
  /\ pd = 0
  /\ samp_offs = 0
  /\ ctl_offs = 0
  /\ out = << >>
  /\ stderr = << >>

NextVgm ==
  \/ ResolveHeader
  \/ LoadData
  \/ PassStart
  \/ WalkStep

SpecVgm == InitVgm /\ [][NextVgm]_vars

\* ------------------------------------------------------------------------
\* The output of vgm2opl passed to the interpreter
\* ------------------------------------------------------------------------

\* Files whose data section is one register write 0x5a a v, for every
\* address a and every value v among bytes.
RegisterFiles(bytes) ==
  { MakeFile(VGM_IDENT, U32Of(63), U32Of(337), U32Of(0), U32Of(12),
             <<90, a, v>>) : a \in bytes, v \in bytes }

\* vgm2opl is started on a file with one register write, to run the music
\* once through; the interpreter is not started yet.
InitPipe ==
  /\ pc = "vgm_open"
  /\ sample_rate = 44100
  /\ rate = 0
  /\ line_count = 0
  /\ l_buf = << >>
  /\ t = 0
  /\ current = 0
  /\ s_fill = 0
  /\ s_total = 0
  /\ events = << >>
  /\ stdin = << >>
  /\ stdin_pos = 0
  /\ file \in RegisterFiles(0..255)
  /\ rep_count = 1
  /\ file_len = <<0, 0>>
  /\ data_offs = <<0, 0>>
  /\ loop_offs = <<0, 0>>
  /\ full_length = <<0, 0>>
  /\ data_len = <<0, 0>>
  /\ pData = << >>
  /\ pass = 0
  /\ pd = 0
  /\ samp_offs = 0
  /\ ctl_offs = 0
  /\ out = << >>
  /\ stderr = << >>

\* "Pass the converted OPL2 hardware script into retro_opl": the
\* interpreter is started, up to its call of readHeader, with the lines
\* written by vgm2opl as its input.
PipeOpen ==
  /\ pc = "vgm_done"
  /\ pc' = "header"
  /\ events' = << <<"opl_init", sample_rate, 0>> >>
  /\ UNCHANGED <<sample_rate, rate, line_count, l_buf, t, current, s_fill,
                 s_total, stdin, stdin_pos, decoderVars>>

\* The interpreter reads the first line of the script.
PipeHeader ==
  /\ Len(out) >= 1
  /\ ReadHeaderLine(out[1])

\* The interpreter reads the next line of the script.
PipeLine ==
  /\ line_count >= 1
  /\ line_count < Len(out)
  /\ MainLoopBody(out[line_count + 1])

\* The interpreter finds the end of the script.
PipeEOF ==
  /\ line_count = Len(out)
  /\ BodyEOF

NextPipe ==
  \/ ResolveHeader
  \/ LoadData
  \/ PassStart
  \/ WalkStep
  \/ PipeOpen
  \/ PipeHeader
  \/ PipeLine
  \/ PipeEOF

SpecPipe == InitPipe /\ [][NextPipe]_vars

\* ------------------------------------------------------------------------
\* The parsers applied to single tokens
\* ------------------------------------------------------------------------

\* Longest of the strings over TokenChars given to the parsers.
MaxToken == 4

\* Tab, space, the ends of the ranges of digits, a colon (the character
\* after '9') and the letter after 'f'.
TokenChars == {ch_TAB, ch_SP, ch_0, ch_9, ch_a, ch_F, ch_f + 1, ch_9 + 1}

\* The strings of n characters of TokenChars.
RECURSIVE TokensOfLength(_)
TokensOfLength(n) ==
  IF n = 0 THEN { << >> }
  ELSE { Append(s, c) : s \in TokensOfLength(n - 1), c \in TokenChars }

TokenStrings(n) == UNION { TokensOfLength(k) : k \in 0..n }

\* Every pair of the characters chars, and every one of them after two
\* digits.
CharPairs(chars) ==
  { <<c, d>> : c \in chars, d \in chars }
    \cup { <<ch_0, ch_0, c>> : c \in chars }

\* The string of the decimal digits ds.
Digits(ds) == [k \in 1..Len(ds) |-> ch_0 + ds[k]]

\* Runs of digits around 2^31 - 1 and 2^32, and with leading zeros.
LongDigits ==
  { Digits(<<1,0,0,0,0,0,0,0,0,0>>), Digits(<<2,1,4,7,4,8,3,6,3,9>>),
    Digits(<<2,1,4,7,4,8,3,6,4,0>>), Digits(<<2,1,4,7,4,8,3,6,4,6>>),
    Digits(<<2,1,4,7,4,8,3,6,4,7>>), Digits(<<2,1,4,7,4,8,3,6,4,8>>),
    Digits(<<2,1,4,7,4,8,3,6,5,0>>), Digits(<<3,0,0,0,0,0,0,0,0,0>>),
    Digits(<<4,2,9,4,9,6,7,2,9,6>>), Digits(<<4,2,9,4,9,6,7,2,9,7>>),
    Digits(<<9,9,9,9,9,9,9,9,9,9>>), Digits(<<1,0,0,0,0,0,0,0,0,0,0>>),
    Digits(<<0,0,0,0,2,1,4,7,4,8,3,6,4,7>>),
    Digits(<<0,0,0,0,2,1,4,7,4,8,3,6,4,8>>),
    Digits(<<0,0,0,0,0,0,0,0,0,0,0,0>>),
    Digits(<<9,9,9,9,9,9,9,9,9>>) }

\* The long runs of digits alone, after blanks, and before other text.
LongNumbers ==
  { pre \o ds \o post :
      pre \in { << >>, <<ch_SP, ch_TAB>> },
      ds \in LongDigits,
      post \in { << >>, <<ch_SP>>, <<ch_a>>, <<ch_9 + 1, ch_0>> } }

\* A token is in the line buffer and one of the parsers is to be called
\* at its start.
InitTokens ==
  /\ pc \in {"parseByte", "parseInt"}
  /\ sample_rate = 44100
  /\ rate = 0
  /\ line_count = 1
  /\ l_buf \in TokenStrings(MaxToken) \cup CharPairs(32..126)
                 \cup LongNumbers
  /\ t = 0
  /\ current = 0
  /\ s_fill = 0
  /\ s_total = 0
  /\ events = << >>
  /\ stdin = << >>
  /\ stdin_pos = 0
  /\ DecoderIdle

\* The call of a parser at the start of the line buffer: the value and
\* the position it returns are recorded, or the program stops.
CallParser(name, r) ==
  /\ IF r.ok
       THEN pc' = "parsed" /\ events' = << <<name, r.val, r.pos>> >>
       ELSE raiseErr /\ events' = events
  /\ UNCHANGED <<sample_rate, rate, line_count, l_buf, t, current, s_fill,
                 s_total, stdin, stdin_pos, decoderVars>>

ParseByteToken == pc = "parseByte" /\ CallParser("parseByte", parseByte(l_buf, 0))

ParseIntToken == pc = "parseInt" /\ CallParser("parseInt", parseInt(l_buf, 0))

NextTokens ==
  \/ ParseByteToken
  \/ ParseIntToken

SpecTokens == InitTokens /\ [][NextTokens]_vars

\* ------------------------------------------------------------------------
\* vgm2opl: the walk late in a long data section
\* ------------------------------------------------------------------------

\* A sample offset near INT32_MAX is reached only after tens of thousands
\* of wait commands.  The walk is taken up there: pData is the rest of the
\* data section from the command the walk stands at, the file is closed,
\* and out and stderr hold what is written from that point on.

\* The number of commands left in the data section.
MaxLate == 2

\* Sample offsets below INT32_MAX by the waits of the commands and by one
\* sample more or less.
LateOffsets ==
  { INT32_MAX - k : k \in {0, 1, 15, 16, 734, 735, 736, 65534, 65535,
                           65536, 66270, 66271} }

\* The commands left: the waits of 735, 0, 1 and 65535 samples, the short
\* wait of 16 samples, a register write and the end marker.
LateCommands ==
  { <<98>>, <<97, 0, 0>>, <<97, 1, 0>>, <<97, 255, 255>>, <<127>>,
    <<90, 1, 2>>, <<102>> }

RECURSIVE LateSections(_)
LateSections(n) ==
  IF n = 0 THEN { << >> }
  ELSE LateSections(n - 1)
         \cup { ds \o c : ds \in LateSections(n - 1), c \in LateCommands }

\* main() in its while loop, in the only pass, with the sample offset
\* late and the control offset in step with it.
InitLate ==
  /\ pc = "vgm_walk"
  /\ sample_rate = 44100
  /\ rate = 0
  /\ line_count = 0
  /\ l_buf = << >>
  /\ t = 0
  /\ current = 0
  /\ s_fill = 0
  /\ s_total = 0
  /\ events = << >>
  /\ stdin = << >>
  /\ stdin_pos = 0
  /\ file = << >>
  /\ rep_count = 1
  /\ pData \in LateSections(MaxLate) \ { << >> }
  /\ data_offs = U32Of(64)
  /\ file_len = U32Of(64 + Len(pData))
  /\ loop_offs = <<0, 0>>
  /\ full_length = U32Of(Len(pData))
  /\ data_len = U32Of(Len(pData))
  /\ pass = 0
  /\ pd = 0
  /\ samp_offs \in LateOffsets
  /\ ctl_offs = ControlOffset(samp_offs)
  /\ out = << >>
  /\ stderr = << >>

\* The walk from the start of the program and the walk taken up late.
SpecWalk == (InitVgm \/ InitLate) /\ [][NextVgm]_vars

\* vgm2opl is started on a file with a data section of commands, to run
\* the music once or twice through; the interpreter, which is to write
\* samples at either rate, is not started yet.
InitScript ==
  /\ pc = "vgm_open"
  /\ sample_rate \in SampleRates
  /\ rate = 0
  /\ line_count = 0
  /\ l_buf = << >>
  /\ t = 0
  /\ current = 0
  /\ s_fill = 0
  /\ s_total = 0
  /\ events = << >>
  /\ stdin = << >>
  /\ stdin_pos = 0
  /\ file \in StreamFiles(MaxData)
  /\ rep_count \in {1, 2}
  /\ file_len = <<0, 0>>
  /\ data_offs = <<0, 0>>
  /\ loop_offs = <<0, 0>>
  /\ full_length = <<0, 0>>
  /\ data_len = <<0, 0>>
  /\ pData = << >>
  /\ pass = 0
  /\ pd = 0
  /\ samp_offs = 0
  /\ ctl_offs = 0
  /\ out = << >>
  /\ stderr = << >>

SpecScript == InitScript /\ [][NextPipe]_vars

\* ------------------------------------------------------------------------
\* The interpreter: waits at every control rate
\* ------------------------------------------------------------------------

\* The number of wait lines of a script and the highest tick count of a
\* wait line.
MaxWaits == 2

MaxCount == 2

\* The header line for the control rate r.
RateLine(r) == <<ch_O, ch_P, ch_L, ch_2, ch_SP>> \o Decimal(r)

\* The wait line for n ticks.
CountLine(n) == <<ch_w, ch_SP>> \o Decimal(n)

\* readInput finds the header line of some control rate 1..1024.
RateHeader == \E r \in ControlRates : ReadHeaderLine(RateLine(r))

\* readInput finds a wait line, one of the first MaxWaits lines of the
\* body.
CountedWait ==
  /\ line_count < 1 + MaxWaits
  /\ \E n \in 0..MaxCount : MainLoopBody(CountLine(n))

NextAdvance ==
  \/ RateHeader
  \/ CountedWait

\* Scripts with a header line of any control rate and wait lines.
SpecAdvance == Init /\ [][NextAdvance]_vars

\* ------------------------------------------------------------------------
\* Types
\* ------------------------------------------------------------------------

TypeOK ==
  /\ pc \in {"header", "body", "done", "error"}
  /\ sample_rate \in SampleRates
  /\ rate \in 0..1024
  /\ line_count \in 0..(1 + MaxLines)
  /\ t \in 0..INT32_MAX
  /\ current \in 0..INT32_MAX
  /\ s_fill \in 0..BUFFER_SAMPLES
  /\ s_total \in 0..INT32_MAX

\* ------------------------------------------------------------------------
\* Vocabulary of the properties: the script format, stated on lines
\* ------------------------------------------------------------------------

Blanks == {ch_SP, ch_TAB}

DecDigits == ch_0..ch_9

\* The hexadecimal digits in the order of their values, in both cases.
LowerHex == Str(<<"0","1","2","3","4","5","6","7","8","9",
                  "a","b","c","d","e","f">>)

UpperHex == Str(<<"0","1","2","3","4","5","6","7","8","9",
                  "A","B","C","D","E","F">>)

HexChars == {LowerHex[i] : i \in 1..16} \cup {UpperHex[i] : i \in 1..16}

\* The number a hexadecimal digit stands for.
HexNumber(c) ==
  (CHOOSE i \in 1..16 : LowerHex[i] = c \/ UpperHex[i] = c) - 1

\* Every character of line at the positions a..b is in the set S.
AllIn(line, a, b, S) == \A i \in a..b : line[i] \in S

\* The line is empty or holds only spaces and tabs.
BlankLine(line) == AllIn(line, 1, Len(line), Blanks)

\* The line starts with an apostrophe.
CommentLine(line) == Len(line) >= 1 /\ line[1] = ch_APOS

\* The places <<a, b>> of the digits of a line "w <N>": the letter w, one
\* or more blanks, the digits at a..b, then blanks only.
WaitPlaces(line) ==
  IF Len(line) < 3 \/ line[1] # ch_w THEN {} ELSE
  { ab \in (3..Len(line)) \X (3..Len(line)) :
      /\ ab[1] <= ab[2]
      /\ AllIn(line, 2, ab[1] - 1, Blanks)
      /\ AllIn(line, ab[1], ab[2], DecDigits)
      /\ AllIn(line, ab[2] + 1, Len(line), Blanks) }

WaitLine(line) == WaitPlaces(line) # {}

\* The digits of a wait line.
WaitDigits(line) ==
  LET ab == CHOOSE x \in WaitPlaces(line) : TRUE
  IN  SubSeq(line, ab[1], ab[2])

\* A digit string without its leading zeros (at least one digit is kept).
RECURSIVE StripZeros(_)
StripZeros(ds) ==
  IF Len(ds) > 1 /\ ds[1] = ch_0 THEN StripZeros(Tail(ds)) ELSE ds

\* The decimal numeral of a natural number.
RECURSIVE Numeral(_)
Numeral(n) ==
  IF n < 10 THEN <<ch_0 + n>>
  ELSE Append(Numeral(n \div 10), ch_0 + (n % 10))

\* The digit string ds is a numeral of the number n.
Denotes(ds, n) == n >= 0 /\ StripZeros(ds) = Numeral(n)

\* The line is "w <N>" for the number n.
WaitLineFor(line, n) == WaitLine(line) /\ Denotes(WaitDigits(line), n)

\* The places <<a, b>> of the two bytes of a line "r <AA> <VV>": the letter
\* r, blanks, two hexadecimal digits at a, blanks, two hexadecimal digits
\* at b, then blanks only.
RegisterPlaces(line) ==
  IF Len(line) < 3 \/ line[1] # ch_r THEN {} ELSE
  { ab \in (3..Len(line)) \X (3..Len(line)) :
      /\ ab[1] + 3 <= ab[2]
      /\ ab[2] + 1 <= Len(line)
      /\ AllIn(line, 2, ab[1] - 1, Blanks)
      /\ AllIn(line, ab[1], ab[1] + 1, HexChars)
      /\ AllIn(line, ab[1] + 2, ab[2] - 1, Blanks)
      /\ AllIn(line, ab[2], ab[2] + 1, HexChars)
      /\ AllIn(line, ab[2] + 2, Len(line), Blanks) }

RegisterLine(line) == RegisterPlaces(line) # {}

\* The byte written as the two hexadecimal digits at position a.
ByteAt(line, a) == (16 * HexNumber(line[a])) + HexNumber(line[a + 1])

\* A step of the main loop that reads a body line.
LineStep == pc = "body" /\ line_count' = line_count + 1

\* x is floor((tv * sr) / r).
IsFloor(x, tv, sr, r) == (x * r <= tv * sr) /\ (tv * sr < (x + 1) * r)

\* The events a step has added, when it has only added events.
Added == SubSeq(events', Len(events) + 1, Len(events'))

Extends == /\ Len(events') >= Len(events)
           /\ SubSeq(events', 1, Len(events)) = events

\* The number of samples asked of opl_generate by the events of ev at the
\* positions lo..hi (summed by halves).
RECURSIVE GeneratedIn(_, _, _)
GeneratedIn(ev, lo, hi) ==
  IF lo > hi THEN 0
  ELSE IF lo = hi
    THEN (IF ev[lo][1] = "opl_generate" THEN ev[lo][3] ELSE 0)
  ELSE LET mid == (lo + hi) \div 2
       IN  GeneratedIn(ev, lo, mid) + GeneratedIn(ev, mid + 1, hi)

\* The number of samples asked of opl_generate in a sequence of events.
Generated(ev) == GeneratedIn(ev, 1, Len(ev))

\* ------------------------------------------------------------------------
\* Properties of the script interpreter
\* ------------------------------------------------------------------------

C2_WaitGeneratesDifference ==
  [][ LineStep /\ pc' = "body" /\ WaitLine(l_buf')
        => /\ IsFloor(current', t', sample_rate, rate)
           /\ Extends
           /\ Generated(Added) = current' - current ]_vars

\* C2 witness: a second wait has been processed at a rate where the sample
\* position is not a whole multiple of the clock.
C2_Witness ==
  /\ pc = "body"
  /\ line_count = 3
  /\ WaitLine(l_buf)
  /\ rate = 1024
  /\ t = 8
  /\ current = SampleOffset(8, sample_rate, 1024)
  /\ current > 7 * (sample_rate \div 1024) + (sample_rate \div 1024)

\* The tick counts of the wait lines for which C3 is stated.
SmallTicks == 9

\* C3: a wait line whose new sample position is not beyond the current
\* one stops the run, and nothing is generated for it.
C3_NoAdvanceIsFatal ==
  [][ LineStep /\ WaitLine(l_buf')
        => \A n \in 0..SmallTicks :
             ( /\ WaitLineFor(l_buf', n)
               /\ (t + n) * sample_rate < (current + 1) * rate )
             => /\ pc' = "error"
                /\ events' = events
                /\ UNCHANGED <<current, s_fill, s_total>> ]_vars

\* C3 witness: after a wait that generated samples, a line "w 0" has
\* stopped the run.
C3_Witness ==
  /\ pc = "error"
  /\ WaitLineFor(l_buf, 0)
  /\ current > 0
  /\ IsFloor(current, t, sample_rate, rate)

\* C4: a line "w 0" is accepted in every body state: the run goes on, no
\* sample is generated, and clock and sample position stay as they are.
C4_WaitZeroAccepted ==
  [][ LineStep /\ WaitLineFor(l_buf', 0)
        => /\ pc' = "body"
           /\ events' = events
           /\ UNCHANGED <<t, current, s_fill, s_total>> ]_vars

\* The places <<a, b>> of the digits of a header line: the tag OPL2, the
\* digits at a..b with blanks before them or none, then blanks only.
HeaderPlaces(line) ==
  IF Len(line) < 5 \/ SubSeq(line, 1, 4) # <<ch_O, ch_P, ch_L, ch_2>>
    THEN {}
    ELSE { ab \in (5..Len(line)) \X (5..Len(line)) :
             /\ ab[1] <= ab[2]
             /\ AllIn(line, 5, ab[1] - 1, Blanks)
             /\ AllIn(line, ab[1], ab[2], DecDigits)
             /\ AllIn(line, ab[2] + 1, Len(line), Blanks) }

\* The digits of a header line.
HeaderDigits(line) ==
  LET ab == CHOOSE x \in HeaderPlaces(line) : TRUE
  IN  SubSeq(line, ab[1], ab[2])

\* The line is "OPL2 <rate>" for the number n.
HeaderLineFor(line, n) ==
  HeaderPlaces(line) # {} /\ Denotes(HeaderDigits(line), n)

\* C5: the interpreter goes from the header to the body only on a line
\* that is the tag OPL2, a decimal control rate in 1..1024 and then blanks
\* only, and that rate becomes the control rate; a header with a rate
\* outside 1..1024 stops the run, after which no line is read; as long as
\* no header has been accepted nothing is written to a register and
\* nothing is generated.
C5_HeaderGate ==
  /\ [][ pc = "header" /\ pc' = "body"
           => /\ rate' \in 1..1024
              /\ HeaderLineFor(l_buf', rate') ]_vars
  /\ [][ ( /\ pc = "header"
           /\ line_count' = line_count + 1
           /\ HeaderPlaces(l_buf') # {}
           /\ \A n \in 1..1024 : ~HeaderLineFor(l_buf', n) )
           => pc' = "error" /\ events' = events ]_vars
  /\ [][ pc = "error" => line_count' = line_count /\ events' = events ]_vars
  /\ [](rate = 0 => events = << <<"opl_init", sample_rate, 0>> >>)

\* C5 witness: the header "OPL2 2000" has stopped the run.
C5_Witness ==
  /\ pc = "error"
  /\ line_count = 1
  /\ HeaderLineFor(l_buf, 2000)
  /\ rate = 0

\* C6: a line "r <AA> <VV>" makes exactly one call of opl_write, with the
\* two bytes of the line as address and value, and leaves the clock, the
\* sample position, the fill of the sample buffer and the count of
\* written samples unchanged.
C6_RegisterLineWritesOnce ==
  [][ LineStep /\ RegisterLine(l_buf')
        => LET ab == CHOOSE x \in RegisterPlaces(l_buf') : TRUE
           IN  /\ pc' = "body"
               /\ events' = Append(events,
                              <<"opl_write", ByteAt(l_buf', ab[1]),
                                ByteAt(l_buf', ab[2])>>)
               /\ UNCHANGED <<t, current, s_fill, s_total>> ]_vars

\* C6 witness: after a wait, the line "r a2 87" has written 0x87 to 0xa2.
C6_Witness ==
  /\ pc = "body"
  /\ l_buf = Str(<<"r"," ","a","2"," ","8","7">>)
  /\ events[Len(events)] = <<"opl_write", 162, 135>>
  /\ current > 0

\* C7: a body line whose processing ends in a fatal error makes no call
\* of opl_write or opl_generate and moves no sample, and once the run has
\* stopped nothing happens any more.
C7_NoPartialLine ==
  /\ [][ LineStep /\ pc' = "error"
           => /\ events' = events
              /\ UNCHANGED <<current, s_fill, s_total>> ]_vars
  /\ [][ pc # "error" ]_vars

\* C7 witness: the line "r 20 01 x", with two good bytes and then text,
\* has stopped a run that had written a register before.
C7_Witness ==
  /\ pc = "error"
  /\ l_buf = Str(<<"r"," ","2","0"," ","0","1"," ","x">>)
  /\ Len(events) = 2
  /\ events[2][1] = "opl_write"

\* C8: a body line that starts with an apostrophe, is empty or holds only
\* spaces and tabs is ignored: the run goes on and the clock, the sample
\* position, the sample buffer and the device are as before.
C8_CommentAndBlankIgnored ==
  [][ LineStep /\ (CommentLine(l_buf') \/ BlankLine(l_buf'))
        => /\ pc' = "body"
           /\ UNCHANGED <<sample_rate, rate, t, current, s_fill, s_total,
                          events>> ]_vars

\* C8 witness: a line of tabs and a space has been passed over after a
\* wait.
C8_Witness ==
  /\ pc = "body"
  /\ l_buf = Str(<<"\t"," ","\t">>)
  /\ line_count = 3
  /\ current > 0

\* A line that is neither blank nor a comment and is no command: it starts
\* with a blank, or with a character other than r and w, or its second
\* character is no blank.
NoCommand(line) ==
  /\ ~BlankLine(line)
  /\ ~CommentLine(line)
  /\ \/ line[1] \in Blanks
     \/ line[1] \notin {ch_r, ch_w}
     \/ Len(line) < 2
     \/ line[2] \notin Blanks

\* C9: such a line stops the run and is never taken as a command.
C9_NoCommandIsFatal ==
  [][ LineStep /\ NoCommand(l_buf')
        => /\ pc' = "error"
           /\ UNCHANGED <<t, current, s_fill, s_total, events>> ]_vars

\* C9 witness: the line "r20 01", without a blank after the letter, has
\* stopped the run.
C9_Witness ==
  /\ pc = "error"
  /\ l_buf = Str(<<"r","2","0"," ","0","1">>)
  /\ line_count = 2

\* C10: the run ends successfully only from the body, on the end of
\* input, and then the sample buffer is empty and as many samples have been
\* written as the sample position says.
C10_EndOfInputFlushes ==
  /\ [][ pc' = "done"
           => pc = "body" /\ line_count' = line_count /\ l_buf' = l_buf ]_vars
  /\ [](pc = "done" => s_fill = 0 /\ s_total = current)

\* C10 witness: a run has ended whose samples filled the buffer more than
\* once and did not end on a full buffer.
C10_Witness ==
  /\ pc = "done"
  /\ s_total > BUFFER_SAMPLES
  /\ s_total % BUFFER_SAMPLES # 0
  /\ s_fill = 0

\* The events of ev at the positions lo..hi all have one of the names.
AllNamed(ev, lo, hi, names) == \A i \in lo..hi : ev[i][1] \in names

\* The input was the sample script "OPL2 60", "r 20 01", "w 120", read to
\* its end at the sampling rate 44100: of the lines of SampleBody only the
\* wait of 120 ticks gives this clock value in two lines, and only the
\* register line makes a call of opl_write.
SampleScriptDone ==
  /\ pc = "done"
  /\ sample_rate = 44100
  /\ line_count = 3
  /\ l_buf = Str(<<"w"," ","1","2","0">>)
  /\ t = 120
  /\ \E i \in 1..Len(events) : events[i][1] = "opl_write"

\* C11: effects are issued in line order.  Every step only adds events
\* after the events of the lines before; a register line adds one call of
\* opl_write and nothing else, a wait line adds only calls of opl_generate
\* and the bulk writes of full buffers.  On the sample script at 44100
\* there is exactly one register write (0x20, 0x01), made before any sample
\* is generated, then 88200 samples are generated, and the end of input
\* flushes the rest of the buffer.
C11_EffectsInLineOrder ==
  /\ [][ Extends ]_vars
  /\ [][ LineStep /\ RegisterLine(l_buf')
           => Len(Added) = 1 /\ Added[1][1] = "opl_write" ]_vars
  /\ [][ LineStep /\ WaitLine(l_buf')
           => AllNamed(Added, 1, Len(Added), {"opl_generate", "fwrite"})
     ]_vars
  /\ [](SampleScriptDone
          => /\ events[1] = <<"opl_init", 44100, 0>>
             /\ events[2] = <<"opl_write", 32, 1>>
             /\ AllNamed(events, 3, Len(events) - 2,
                         {"opl_generate", "fwrite"})
             /\ Generated(events) = 88200
             /\ events[Len(events) - 1] = <<"opl_finish", 0, 0>>
             /\ events[Len(events)] =
                  <<"fwrite", 0, 88200 % BUFFER_SAMPLES>>
             /\ s_total = 88200
             /\ s_fill = 0)

\* C11 witness: the sample script has been read to its end.
C11_Witness == SampleScriptDone /\ current = 88200

\* C12: for every control rate r in 1..1024 and both sampling rates s, the
\* sample offsets of the clock values 0, 1, ..., r start at 0, never
\* decrease, end at exactly s, and each is the exact value k * s / r or
\* less than one sample below it.
C12_ConversionOverOneSecond ==
  /\ [](pc = "convert"
          => /\ (t = 0 => current = 0)
             /\ (t = rate => current = sample_rate)
             /\ current * rate <= t * sample_rate
             /\ t * sample_rate < (current + 1) * rate)
  /\ [][ pc = "convert" => current' >= current ]_vars

\* C12 witness: the last tick of a second at the highest control rate.
C12_Witness ==
  /\ pc = "convert"
  /\ rate = 1024
  /\ t = 1024
  /\ current = 48000

\* The number of samples written to the output by the events of ev at the
\* positions lo..hi (summed by halves).
RECURSIVE WrittenIn(_, _, _)
WrittenIn(ev, lo, hi) ==
  IF lo > hi THEN 0
  ELSE IF lo = hi
    THEN (IF ev[lo][1] = "fwrite" THEN ev[lo][3] ELSE 0)
  ELSE LET mid == (lo + hi) \div 2
       IN  WrittenIn(ev, lo, mid) + WrittenIn(ev, mid + 1, hi)

\* The fill of the buffer before the event j of the events ev, when it was
\* fill before the first of them.
FillBefore(fill, ev, j) ==
  fill + GeneratedIn(ev, 1, j - 1) - WrittenIn(ev, 1, j - 1)

\* C17: every call of opl_generate asks for at least one sample and for no
\* more than the room left in the buffer, 4096 less the fill at the time
\* of the call.
C17_GenerateFitsBuffer ==
  [][ Extends /\
      \A j \in 1..Len(Added) :
        Added[j][1] = "opl_generate"
          => /\ Added[j][2] = FillBefore(s_fill, Added, j)
             /\ Added[j][3] >= 1
             /\ Added[j][3] <= BUFFER_SAMPLES - FillBefore(s_fill, Added, j)
    ]_vars

\* C17 witness: a wait has met a partly filled buffer, filled it up with
\* one call, and gone on with further calls after the flush.
C17_Witness ==
  \E i \in 1..Len(events) :
    /\ i + 2 <= Len(events)
    /\ events[i][1] = "opl_generate"
    /\ events[i][2] > 0
    /\ events[i][3] = BUFFER_SAMPLES - events[i][2]
    /\ events[i + 1][1] = "fwrite"
    /\ events[i + 2][1] = "opl_generate"

\* C18: the buffer is written out only when it is completely full and more
\* samples are to be appended, or at the end of the input.  A flush adds
\* exactly the fill to s_total and empties the buffer; s_total never
\* decreases and stays within 0..INT32_MAX; flushBuffer fails instead of
\* storing a total beyond INT32_MAX.
C18_FlushDiscipline ==
  /\ [](s_total \in 0..INT32_MAX)
  /\ [][ /\ Extends
         /\ \A j \in 1..Len(Added) :
              Added[j][1] = "fwrite"
                => /\ Added[j][3] = FillBefore(s_fill, Added, j)
                   /\ \/ /\ Added[j][3] = BUFFER_SAMPLES
                         /\ j < Len(Added)
                         /\ Added[j + 1] =
                              <<"opl_generate", 0, Added[j + 1][3]>>
                      \/ /\ pc = "body" /\ pc' = "done"
                         /\ j = Len(Added)
                         /\ j = 2
                         /\ Added[1][1] = "opl_finish"
                         /\ s_fill' = 0
         /\ s_total' = s_total + WrittenIn(Added, 1, Len(Added))
         /\ s_fill' = FillBefore(s_fill, Added, Len(Added) + 1)
         /\ s_total' >= s_total ]_vars
  /\ \A f \in 1..BUFFER_SAMPLES :
       LET fits == flushBuffer([ok |-> TRUE, fill |-> f,
                                total |-> INT32_MAX - f, ev |-> << >>])
           over == flushBuffer([ok |-> TRUE, fill |-> f,
                                total |-> (INT32_MAX - f) + 1, ev |-> << >>])
       IN  /\ fits.ok /\ fits.total = INT32_MAX /\ fits.fill = 0
           /\ ~over.ok /\ over.total = (INT32_MAX - f) + 1

\* C18 witness: full buffers have been written during a wait and the rest
\* at the end of the input.
C18_Witness ==
  /\ pc = "done"
  /\ s_total > BUFFER_SAMPLES
  /\ s_total % BUFFER_SAMPLES # 0
  /\ events[Len(events)] = <<"fwrite", 0, s_total % BUFFER_SAMPLES>>
  /\ \E i \in 1..Len(events) : events[i] = <<"fwrite", 0, BUFFER_SAMPLES>>

\* C19: neither counter of the interpreter wraps.  The clock and the sample
\* position are always within 0..INT32_MAX; a wait that would take the
\* clock beyond INT32_MAX stops the run with the clock as it was; a wait
\* whose new clock value converts to a position beyond INT32_MAX stops the
\* run with the position as it was and nothing generated.
C19_CountersNeverWrap ==
  /\ [](t \in 0..INT32_MAX /\ current \in 0..INT32_MAX)
  /\ [][ LineStep /\ WaitLine(l_buf')
           => \A n \in {INT32_MAX - k : k \in 0..SmallTicks} :
                WaitLineFor(l_buf', n) /\ n > INT32_MAX - t
                  => /\ pc' = "error"
                     /\ t' = t
                     /\ events' = events
                     /\ UNCHANGED <<current, s_fill, s_total>> ]_vars
  /\ [][ LineStep /\ WaitLine(l_buf')
           /\ ~SampleOffsetInRange(t', sample_rate, rate)
           => /\ pc' = "error"
              /\ events' = events
              /\ UNCHANGED <<current, s_fill, s_total>> ]_vars

\* C19 witness: after a wait of one tick, a wait of INT32_MAX ticks has
\* stopped the run with the clock still at 1.
C19_Witness ==
  /\ pc = "error"
  /\ WaitLineFor(l_buf, INT32_MAX)
  /\ t = 1
  /\ current > 0

\* The characters read by a step of the line reader.
Consumed == SubSeq(stdin, stdin_pos + 1, stdin_pos')

\* Position in the unread input of the first character that is not a line
\* character, or one more than its length when all are.
FirstBreak(in) ==
  LET brk == { k \in 1..Len(in) : ~IsLineChar(in[k]) }
  IN  IF brk = {} THEN Len(in) + 1
      ELSE CHOOSE k \in brk : \A j \in brk : k <= j

\* C20: the line reader accepts a CR only when the very next character is
\* LF, and the pair ends the line; a CR followed by anything else, or by
\* the end of the input, stops the run; a CR is never part of the content
\* of a line.
C20_CarriageReturn ==
  /\ [](\A j \in 1..Len(l_buf) : l_buf[j] # ch_CR)
  /\ [][ pc = "read" /\ stdin_pos < Len(stdin)
         => LET in == SubSeq(stdin, stdin_pos + 1, Len(stdin))
                k  == FirstBreak(in)
            IN  /\ k <= Len(in) /\ in[k] = ch_CR
                     /\ k < Len(in) /\ in[k + 1] = ch_LF
                     => /\ pc' = "read"
                        /\ line_count' = line_count + 1
                        /\ l_buf' = SubSeq(in, 1, k - 1)
                        /\ stdin_pos' = stdin_pos + k + 1
                /\ k <= Len(in) /\ in[k] = ch_CR
                     /\ (k = Len(in) \/ in[k + 1] # ch_LF)
                     => pc' = "error"
                /\ pc' = "read"
                     => \A j \in 1..Len(Consumed) :
                          Consumed[j] = ch_CR
                            => /\ j + 1 = Len(Consumed)
                               /\ Consumed[j + 1] = ch_LF ]_vars

\* C20 witness: of the input "w", CR, LF, CR the first line has been read,
\* ended by the pair CR LF, and the lone CR at the end has then stopped
\* the run.
C20_Witness ==
  /\ pc = "error"
  /\ stdin = <<ch_w, ch_CR, ch_LF, ch_CR>>
  /\ stdin_pos = 4
  /\ line_count = 2
  /\ l_buf = << >>

\* vgm2opl has resolved the header without an error.
HeaderResolved == pc \in {"vgm_resolved", "vgm_pass", "vgm_walk", "vgm_done"}

\* C13: whenever the header is resolved without an error, the loop offset
\* lies in the data section: data start <= loop offset < end of file as
\* absolute offsets, without wrap-around, and the loop offset relative to
\* the data start is below the length of the data section; this for
\* header values that wrap when 4, 0x1c and 0x34 are added as for others.
C13_LoopOffsetInData ==
  [](HeaderResolved
       => /\ U32Lt(data_offs, file_len)
          /\ full_length = U32Sub(file_len, data_offs)
          /\ U32Lt(loop_offs, full_length)
          /\ LET loop == U32Add(data_offs, loop_offs)
             IN  /\ U32Le(data_offs, loop)
                 /\ U32Lt(loop, file_len))

\* C13 witness: a header is resolved whose loop value 0xffffffe2 and data
\* value 0xffffffca both come to 0xfffffffe, one below the end of file
\* 0xffffffff.
C13_Witness ==
  /\ pc = "vgm_resolved"
  /\ readDword(file, 28) = <<65535, 65506>>
  /\ data_offs = <<65535, 65534>>
  /\ file_len = <<65535, 65535>>
  /\ loop_offs = <<0, 0>>

\* The walk is at an opcode.
AtOpcode == pc = "vgm_walk" /\ data_len # <<0, 0>>

\* The program stops with the report of the unsupported opcode op and
\* writes no line.
StopsUnsupported(op) ==
  /\ pc' = "error"
  /\ stderr' = Append(stderr, <<"Unsupported VGM opcode 0x%02x!", op>>)
  /\ out' = out

\* C14 as stated: a walk that reaches the opcode 0x7a stops with the
\* report of the unsupported opcode 0x7a and writes no further line.
C14_Opcode7AUnsupported ==
  [][ AtOpcode /\ pData[pd + 1] = 122 => StopsUnsupported(122) ]_vars

\* The opcodes the walk has a branch for.
SupportedOpcodes == {90, 97, 98, 99, 102} \cup (112..127)

\* C14, amended: a walk that reaches an opcode other than 0x5a, 0x61, 0x62,
\* 0x63, 0x66 and 0x70..0x7f stops with the report of that opcode as
\* unsupported and writes no further line; nothing is done after the stop.
\* The opcode 0x7a is one of the short waits 0x70..0x7f: it adds 11 source
\* samples and the walk goes on.
C14_UnsupportedOpcodeAborts ==
  /\ [][ AtOpcode /\ pData[pd + 1] \notin SupportedOpcodes
           => StopsUnsupported(pData[pd + 1]) ]_vars
  /\ [][ AtOpcode /\ pData[pd + 1] = 122
           => /\ pc' = "vgm_walk"
              /\ stderr' = stderr
              /\ samp_offs' = samp_offs + 11
              /\ pd' = pd + 1 ]_vars
  /\ [][ pc # "error" ]_vars

\* C14 witness: the second pass has started at the byte 0xb0 and stopped
\* there, after the lines of the first pass were written.
C14_Witness ==
  /\ pc = "error"
  /\ stderr = << <<"Unsupported VGM opcode 0x%02x!", 176>> >>
  /\ pass = 1
  /\ Len(out) > 1

\* The VGM commands, stated on the data section: the number of bytes of
\* the command with the opcode op, and the source samples it waits.
CommandLength(op) == IF op \in {90, 97} THEN 3 ELSE 1

CommandSamples(data, p) ==
  LET op == data[p + 1]
  IN  IF op = 97 THEN data[p + 2] + (256 * data[p + 3])
      ELSE IF op = 98 THEN 735
      ELSE IF op = 99 THEN 882
      ELSE IF op \in 112..127 THEN op - 111
      ELSE 0

\* The source samples of the commands from the offset p to the end marker
\* or the end of the data.
RECURSIVE PassSamples(_, _)
PassSamples(data, p) ==
  IF p >= Len(data) \/ data[p + 1] = 102 THEN 0
  ELSE CommandSamples(data, p)
         + PassSamples(data, p + CommandLength(data[p + 1]))

\* The register writes <<address, value>> of the commands from the offset
\* p to the end marker or the end of the data, in order.
RECURSIVE PassWrites(_, _)
PassWrites(data, p) ==
  IF p >= Len(data) \/ data[p + 1] = 102 THEN << >>
  ELSE (IF data[p + 1] = 90 THEN << <<data[p + 2], data[p + 3]>> >>
        ELSE << >>)
         \o PassWrites(data, p + CommandLength(data[p + 1]))

\* The number a string of decimal digits stands for.
RECURSIVE NumberOf(_)
NumberOf(ds) ==
  IF Len(ds) = 0 THEN 0
  ELSE (10 * NumberOf(SubSeq(ds, 1, Len(ds) - 1))) + (ds[Len(ds)] - ch_0)

\* The sum of the ticks of the wait lines "w <N>" among the lines
\* lo..hi of the output.
RECURSIVE TicksIn(_, _, _)
TicksIn(lines, lo, hi) ==
  IF lo > hi THEN 0
  ELSE (IF lines[lo][1] = ch_w
          THEN NumberOf(SubSeq(lines[lo], 3, Len(lines[lo])))
          ELSE 0)
         + TicksIn(lines, lo + 1, hi)

\* The register lines among the lines of the output, in order.
RegisterLinesOf(lines) == SelectSeq(lines, LAMBDA l : l[1] = ch_r)

\* The line "r aa vv" of a register write, in lowercase hexadecimal.
HexDigits == Str(<<"0","1","2","3","4","5","6","7","8","9",
                   "a","b","c","d","e","f">>)

RegisterLineOf(w) ==
  <<ch_r, ch_SP, HexDigits[(w[1] \div 16) + 1], HexDigits[(w[1] % 16) + 1],
    ch_SP, HexDigits[(w[2] \div 16) + 1], HexDigits[(w[2] % 16) + 1]>>

\* The lines of a sequence of register writes.
RegisterLinesFor(ws) == [k \in 1..Len(ws) |-> RegisterLineOf(ws[k])]

\* C15: with the repeat count 2 the data section is walked once from its
\* start and then again from the loop offset, and neither the source
\* sample offset nor the control offset is reset between the passes: at
\* the end the sample offset is the sum of the samples of both passes, the
\* register lines are those of the first pass followed by those of the
\* second, and the ticks of all wait lines add up to
\* floor(samp_offs * 980 / 44100).  With the loop offset at the data start
\* this is every register line twice and floor(2 * S * 980 / 44100) ticks
\* for the S samples of one pass.
C15_SecondPassContinues ==
  /\ [][ pc = "vgm_pass" /\ pass < rep_count
           => /\ pd' = (IF pass = 0 THEN 0 ELSE U32Val(loop_offs))
              /\ data_len' = U32Sub(full_length, U32Of(pd'))
              /\ UNCHANGED <<samp_offs, ctl_offs, out>> ]_vars
  /\ [][ samp_offs' >= samp_offs /\ ctl_offs' >= ctl_offs ]_vars
  /\ [](pc = "vgm_done" /\ rep_count = 2
          => LET loop  == U32Val(loop_offs)
                 ticks == TicksIn(out, 1, Len(out))
             IN  /\ samp_offs = PassSamples(pData, 0)
                                  + PassSamples(pData, loop)
                 /\ RegisterLinesOf(out) =
                      RegisterLinesFor(PassWrites(pData, 0)
                                         \o PassWrites(pData, loop))
                 /\ ticks = ctl_offs
                 /\ ticks * 44100 <= samp_offs * 980
                 /\ samp_offs * 980 < (ticks + 1) * 44100
                 /\ loop = 0
                      => /\ samp_offs = 2 * PassSamples(pData, 0)
                         /\ RegisterLinesOf(out) =
                              RegisterLinesFor(PassWrites(pData, 0))
                                \o RegisterLinesFor(PassWrites(pData, 0)))

\* C15 witness: a file with the loop value 0x24, the loop offset at the
\* data start 0x40, has been walked twice: two register writes, a wait of
\* 735 and a wait of 11 samples in each pass, 33 ticks in all, the last
\* of them written by the second pass only.
C15_Witness ==
  /\ pc = "vgm_done"
  /\ rep_count = 2
  /\ readDword(file, 28) = U32Of(36)
  /\ loop_offs = <<0, 0>>
  /\ pData = <<90, 162, 135, 98, 90, 32, 1, 122, 102>>
  /\ samp_offs = 2 * 746
  /\ ctl_offs = 33
  /\ Len(out) = 8
  /\ out[8] = <<ch_w, ch_SP, ch_0 + 1>>

\* C16: a register write survives the way through both programs.  For
\* every address a and value v, vgm2opl turns the command 0x5a a v into the
\* line "r aa vv", two lowercase hexadecimal digits each and single
\* spaces, and parseByte applied to that line at the places the
\* interpreter applies it gives a and then v, so that the interpreter
\* writes the value v to the register a.
C16_RegisterRoundTrip ==
  /\ [](Len(out) >= 2
          => LET a  == pData[2]
                 v  == pData[3]
                 pa == parseByte(out[2], 1)
                 pv == parseByte(out[2], pa.pos)
             IN  /\ out[2] = RegisterLineOf(<<a, v>>)
                 /\ pa.ok /\ pa.val = a
                 /\ pv.ok /\ pv.val = v)
  /\ [][ LineStep /\ line_count = 1
           => /\ l_buf' = out[2]
              /\ pc' = "body"
              /\ Added = << <<"opl_write", pData[2], pData[3]>> >> ]_vars

\* C16 witness: the command 0x5a 0xa2 0x87 has come out as the line
\* "r a2 87" and the interpreter has written 0x87 to the register 0xa2.
C16_Witness ==
  /\ pc = "done"
  /\ pData = <<90, 162, 135>>
  /\ out[2] = Str(<<"r"," ","a","2"," ","8","7">>)
  /\ events[2] = <<"opl_write", 162, 135>>

\* The number of spaces and tabs at the start of a string.
RECURSIVE LeadingBlanks(_)
LeadingBlanks(s) ==
  IF Len(s) > 0 /\ s[1] \in Blanks THEN 1 + LeadingBlanks(Tail(s)) ELSE 0

\* The character of the string s after k characters is in the set S.
HasAt(s, k, S) == k < Len(s) /\ s[k + 1] \in S

\* C21: parseByte, after the spaces and tabs at the start, succeeds exactly
\* when the next two characters are hexadecimal digits of either case and
\* the character after them is not one; it then returns 16 * d1 + d2 and
\* the position after the second digit.  With no digit, one digit, or
\* three digits in a row the program stops.
C21_ByteParser ==
  [][ pc = "parseByte"
        => LET k == LeadingBlanks(l_buf)
           IN  IF /\ HasAt(l_buf, k, HexChars)
                  /\ HasAt(l_buf, k + 1, HexChars)
                  /\ ~HasAt(l_buf, k + 2, HexChars)
                 THEN /\ pc' = "parsed"
                      /\ events' =
                           << <<"parseByte",
                                (16 * HexNumber(l_buf[k + 1]))
                                  + HexNumber(l_buf[k + 2]),
                                k + 2>> >>
                 ELSE pc' = "error" /\ events' = events ]_vars

\* C21 witness: a tab and "Fa:" have been parsed as 250, up to the colon.
C21_Witness ==
  /\ pc = "parsed"
  /\ l_buf = <<ch_TAB, ch_F, ch_a, ch_9 + 1>>
  /\ events = << <<"parseByte", 250, 3>> >>

\* The longest run of decimal digits of s after k characters.
RECURSIVE DigitRun(_, _)
DigitRun(s, k) ==
  IF HasAt(s, k, DecDigits) THEN <<s[k + 1]>> \o DigitRun(s, k + 1)
  ELSE << >>

\* The digit string a is before b in the order of the dictionary, or is b.
RECURSIVE DigitsLe(_, _)
DigitsLe(a, b) ==
  \/ Len(a) = 0
  \/ a[1] < b[1]
  \/ (a[1] = b[1] /\ DigitsLe(Tail(a), Tail(b)))

\* The digit string, without its leading zeros, stands for a number of at
\* most 2^31 - 1.
FitsInt32(ds) ==
  LET n == StripZeros(ds)
  IN  \/ Len(n) < 10
      \/ (Len(n) = 10 /\ DigitsLe(n, Digits(<<2,1,4,7,4,8,3,6,4,7>>)))

\* C22: parseInt, after the spaces and tabs at the start, takes the whole
\* run of decimal digits.  When the run is not empty and stands for a
\* number of at most 2^31 - 1, leading zeros allowed, it returns exactly
\* that number and the position after the run.  When the number is larger,
\* or when there is no digit, the program stops: no wrapped and no
\* negative value is ever returned.
C22_IntParser ==
  /\ [][ pc = "parseInt"
           => LET k   == LeadingBlanks(l_buf)
                  run == DigitRun(l_buf, k)
              IN  IF Len(run) > 0 /\ FitsInt32(run)
                    THEN /\ pc' = "parsed"
                         /\ events' =
                              << <<"parseInt", NumberOf(StripZeros(run)),
                                   k + Len(run)>> >>
                    ELSE pc' = "error" /\ events' = events ]_vars
  /\ [](pc = "parsed" => events[1][2] \in 0..INT32_MAX)

\* C22 witness: 2147483647 with leading zeros, after blanks and before a
\* letter, has been parsed.
C22_Witness ==
  /\ pc = "parsed"
  /\ l_buf = <<ch_SP, ch_TAB>>
               \o Digits(<<0,0,0,0,2,1,4,7,4,8,3,6,4,7>>) \o <<ch_a>>
  /\ events = << <<"parseInt", INT32_MAX, 16>> >>

\* ------------------------------------------------------------------------
\* vgm2opl: the header rules
\* ------------------------------------------------------------------------

\* The header field at the offset offs plus offs, as the 32-bit sum the
\* program computes.
FieldSum(offs) == U32Add(readDword(file, offs), U32Of(offs))

\* The start of the data section that the header of the file asks for.
DataStart ==
  IF U32Lt(readDword(file, 8), U32Of(336)) THEN U32Of(64)
  ELSE IF U32Le(FieldSum(52), U32Of(52)) THEN U32Of(64)
  ELSE FieldSum(52)

WrongIdent == Len(file) >= 4 /\ readDword(file, 0) # VGM_IDENT

LoopOutside ==
  LET loop == IF U32Le(FieldSum(28), U32Of(28)) THEN DataStart
              ELSE FieldSum(28)
  IN  U32Lt(loop, DataStart) \/ U32Le(FieldSum(4), loop)

NoData == U32Le(FieldSum(4), DataStart)

TooLarge == U32Lt(U32Of(16777216), U32Sub(FieldSum(4), DataStart))

HeaderFault ==
  \/ WrongIdent
  \/ Len(file) >= 56 /\ (LoopOutside \/ NoData \/ TooLarge)

\* C24: a file whose header has one of the four faults is never read past
\* its header: the step that resolves the header stops the program with
\* an error, no byte of data is loaded or decoded, and no line is ever
\* written, the header line OPL2 980 included.
C24_HeaderFaultBeforeOutput ==
  /\ [][pc = "vgm_open" /\ HeaderFault
          => pc' = "error" /\ Len(stderr') = 1]_vars
  /\ [](HeaderFault
          => /\ pc \in {"vgm_open", "error"}
             /\ out = << >>
             /\ pData = << >>
             /\ pass = 0 /\ pd = 0 /\ samp_offs = 0 /\ ctl_offs = 0)

\* C24 witness: a file whose data section would be one byte more than
\* 16 MiB, with its loop offset in the data section, has been refused
\* with nothing written.
C24_Witness ==
  /\ pc = "error"
  /\ Len(file) >= 56
  /\ ~WrongIdent /\ ~LoopOutside /\ ~NoData /\ TooLarge
  /\ FieldSum(4) = <<256, 65>>
  /\ out = << >>

\* ------------------------------------------------------------------------
\* vgm2opl: the end marker
\* ------------------------------------------------------------------------

\* The walk is at the end marker 0x66.
AtEndMarker == AtOpcode /\ pData[pd + 1] = 102

\* A pass has stopped at the end marker: pd is still at the marker.
StoppedAtEndMarker ==
  pc = "vgm_pass" /\ pass > 0 /\ data_len # <<0, 0>> /\ pData[pd + 1] = 102

\* C25: at the end marker the pass stops at once and without an error:
\* the walk does not move on, no line and no message is written and the
\* offsets stay as they are.  After a pass that stopped at the marker,
\* the next pass, if there is one, starts at the loop offset, and after
\* the last pass the program is done without an error.
C25_EndMarkerStopsPass ==
  [][/\ AtEndMarker
          => /\ pc' = "vgm_pass"
             /\ pass' = pass + 1
             /\ UNCHANGED <<pd, data_len, out, stderr, samp_offs, ctl_offs>>
     /\ StoppedAtEndMarker
          => /\ UNCHANGED <<out, stderr, samp_offs, ctl_offs>>
             /\ IF pass < rep_count
                  THEN /\ pc' = "vgm_walk"
                       /\ pd' = U32Val(loop_offs)
                       /\ data_len'
                            = U32Sub(full_length, loop_offs)
                  ELSE pc' = "vgm_done" /\ stderr = << >>]_vars

\* C25 witness: the data section r a2 87, wait 735, r 20 01, wait 11, end
\* marker has been walked twice, the second time from the loop offset 3,
\* and the program is done with pd at the marker both times; the lines
\* are the header line, r, w 16, r, and from the second pass w 16, r, w 1.
C25_Witness ==
  /\ pc = "vgm_done"
  /\ rep_count = 2
  /\ pass = 2
  /\ pData = <<90, 162, 135, 98, 90, 32, 1, 122, 102>>
  /\ loop_offs = U32Of(3)
  /\ pd = 8
  /\ stderr = << >>
  /\ Len(out) = 7
  /\ out[7] = WaitText(1)

\* ------------------------------------------------------------------------
\* vgm2opl: the opcodes
\* ------------------------------------------------------------------------

\* The walk is at the opcode op, with its two operand bytes if it has any.
AtCommand(op) ==
  /\ AtOpcode
  /\ pData[pd + 1] = op
  /\ op \in {90, 97} => U32Le(U32Of(3), data_len)

\* The step is a wait request of n source samples that moves the walk on
\* by len bytes: the sample offset takes the n samples and no register
\* line is written.
WaitsFor(n, len) ==
  /\ pc' = "vgm_walk"
  /\ samp_offs' = samp_offs + n
  /\ pd' = pd + len
  /\ stderr' = stderr
  /\ RegisterLinesOf(out') = RegisterLinesOf(out)

\* C26 as stated: 0x62 waits 735 source samples, 0x63 waits 882, 0x61
\* waits its two operand bytes read as a little-endian 16-bit value, 0x5a
\* writes a register with its two operand bytes, 0x66 ends the pass, and
\* every other opcode stops the program with the report of that opcode as
\* unsupported.
C26_OnlyFiveOpcodes ==
  [][/\ AtCommand(98) => WaitsFor(735, 1)
     /\ AtCommand(99) => WaitsFor(882, 1)
     /\ AtCommand(97)
          => WaitsFor(pData[pd + 2] + (256 * pData[pd + 3]), 3)
     /\ AtCommand(90)
          => /\ pc' = "vgm_walk"
             /\ out' = Append(out, RegisterLineOf(<<pData[pd + 2],
                                                    pData[pd + 3]>>))
             /\ pd' = pd + 3
             /\ UNCHANGED <<samp_offs, ctl_offs, stderr>>
     /\ AtCommand(102) => pc' = "vgm_pass" /\ UNCHANGED <<out, stderr>>
     /\ AtOpcode /\ pData[pd + 1] \notin {90, 97, 98, 99, 102}
          => StopsUnsupported(pData[pd + 1])]_vars

\* C26, amended: as stated for 0x62, 0x63, 0x61, 0x5a and 0x66; each
\* opcode op of 0x70..0x7f waits (op - 0x70) + 1 source samples; and every
\* opcode outside these stops the program with the report of that opcode
\* as unsupported.
C26_OpcodeTable ==
  [][/\ AtCommand(98) => WaitsFor(735, 1)
     /\ AtCommand(99) => WaitsFor(882, 1)
     /\ AtCommand(97)
          => WaitsFor(pData[pd + 2] + (256 * pData[pd + 3]), 3)
     /\ AtCommand(90)
          => /\ pc' = "vgm_walk"
             /\ out' = Append(out, RegisterLineOf(<<pData[pd + 2],
                                                    pData[pd + 3]>>))
             /\ pd' = pd + 3
             /\ UNCHANGED <<samp_offs, ctl_offs, stderr>>
     /\ AtCommand(102) => pc' = "vgm_pass" /\ UNCHANGED <<out, stderr>>
     /\ \A op \in 112..127 : AtCommand(op) => WaitsFor((op - 112) + 1, 1)
     /\ AtOpcode /\ pData[pd + 1] \notin {90, 97, 98, 99, 102}
                 /\ pData[pd + 1] \notin 112..127
          => StopsUnsupported(pData[pd + 1])]_vars

\* C26 witness: the walk has taken the wait 0x61 0x10 0x27 of 10000
\* samples, the register write 0x5a 0x00 0xff and the wait 0x63 of 882
\* samples, and stands at the next command.
C26_Witness ==
  /\ pc = "vgm_walk"
  /\ pData = <<97, 16, 39, 90, 0, 255, 99, 97, 0, 0, 102>>
  /\ pd = 7
  /\ pass = 0
  /\ samp_offs = 10882
  /\ RegisterLinesOf(out) = << RegisterLineOf(<<0, 255>>) >>

\* ------------------------------------------------------------------------
\* vgm2opl: the waits
\* ------------------------------------------------------------------------

\* The output is there from its first line, the header line.
WholeOutput == Len(out) >= 1 /\ out[1][1] = ch_O

\* The ticks of the wait lines of the output.
TicksOf(lines) == TicksIn(lines, 1, Len(lines))

\* The walk is at a wait command for at least one source sample.
AtWait ==
  /\ AtOpcode
  /\ pData[pd + 1] \in {97, 98, 99} \cup (112..127)
  /\ pData[pd + 1] = 97 => U32Le(U32Of(3), data_len)
  /\ CommandSamples(pData, pd) >= 1

\* C27: the control offset is floor(samp_offs * 980 / 44100) after every
\* step, that is floor(samp_offs / 45).  A step writes a wait line exactly
\* when the control offset grows, and the line has the growth as its
\* count, which is at least 1; so the counts of all wait lines written
\* add up to the control offset of the samples waited.  A wait that takes
\* the sample offset beyond INT32_MAX stops the program with an error and
\* writes nothing, and the offsets never leave 0..INT32_MAX.
C27_WaitAccounting ==
  /\ [](/\ samp_offs \in 0..INT32_MAX
        /\ ctl_offs \in 0..INT32_MAX
        /\ (samp_offs - (ctl_offs * 45)) \in 0..44)
  /\ [][IF ctl_offs' > ctl_offs
          THEN /\ Len(out') = Len(out) + 1
               /\ SubSeq(out', 1, Len(out)) = out
               /\ WaitLineFor(out'[Len(out')], ctl_offs' - ctl_offs)
          ELSE /\ ctl_offs' = ctl_offs
               /\ TicksOf(out') = TicksOf(out)
               /\ Len(SelectSeq(out', LAMBDA l : l[1] = ch_w))
                    = Len(SelectSeq(out, LAMBDA l : l[1] = ch_w))]_vars
  /\ [](WholeOutput => TicksOf(out) = ctl_offs)
  /\ [][AtWait
          => LET n == CommandSamples(pData, pd)
             IN  IF samp_offs > INT32_MAX - n
                   THEN /\ pc' = "error"
                        /\ stderr'
                             = Append(stderr,
                                      <<"Sample count overflow!", 0>>)
                        /\ UNCHANGED <<out, samp_offs, ctl_offs>>
                   ELSE /\ pc' = "vgm_walk"
                        /\ samp_offs' = samp_offs + n]_vars

\* C27 witness of the overflow: with the sample offset 735 below
\* INT32_MAX, the wait of 735 samples has been taken and has written the
\* line w 16, and the wait of one sample after it has stopped the program.
C27_Witness ==
  /\ pc = "error"
  /\ stderr = << <<"Sample count overflow!", 0>> >>
  /\ pData = <<98, 97, 1, 0>>
  /\ pd = 1
  /\ samp_offs = INT32_MAX
  /\ ctl_offs = 47721858
  /\ out = << WaitText(16) >>

\* The walk is at the wait command 0x61 0x00 0x00.
AtZeroWait ==
  /\ AtCommand(97)
  /\ pData[pd + 2] = 0
  /\ pData[pd + 3] = 0

\* C28: the wait command 0x61 with the operand 0x0000 does nothing but
\* move the walk past its three bytes: no line and no message is written,
\* the program goes on, and the source sample offset and the control
\* offset are unchanged; this also with the sample offset at INT32_MAX.
C28_ZeroWaitIsNoOp ==
  [][AtZeroWait
       => /\ pc' = "vgm_walk"
          /\ pd' = pd + 3
          /\ data_len' = U32Sub(data_len, U32Of(3))
          /\ UNCHANGED <<out, stderr, samp_offs, ctl_offs, pass>>]_vars

\* C28 witness: after a wait of 10000 samples, a register write and a
\* wait of 882 samples, the walk is past the wait 0x61 0x00 0x00 and
\* stands at the end marker, with the offsets and the four lines as they
\* were before it.
C28_Witness ==
  /\ pc = "vgm_walk"
  /\ pData = <<97, 16, 39, 90, 0, 255, 99, 97, 0, 0, 102>>
  /\ pd = 10
  /\ samp_offs = 10882
  /\ ctl_offs = 241
  /\ Len(out) = 4
  /\ out[4] = WaitText(19)
  /\ stderr = << >>

\* ------------------------------------------------------------------------
\* vgm2opl and the interpreter: the scripts
\* ------------------------------------------------------------------------

\* The interpreter has been started on the output of vgm2opl.
Piped == events # << >>

\* C29: the interpreter accepts every script that vgm2opl has written in
\* a run without an error, at 44100 and at 48000 samples per second.  The
\* first line is OPL2 980 and gives the control rate 980; every line
\* after it is taken in its turn, is a register line or a wait line, and
\* leaves the interpreter running; every wait line has a count of at
\* least 1 and moves the sample position strictly on; at the end of the
\* script the interpreter is done, with as many ticks as vgm2opl has
\* written and the samples of that many ticks.  The interpreter never
\* stops with an error.
C29_ScriptsAccepted ==
  /\ [](pc = "error" => ~Piped /\ Len(stderr) = 1)
  /\ [](pc = "vgm_done"
          => /\ out[1] = Str(<<"O","P","L","2"," ","9","8","0">>)
             /\ \A k \in 2..Len(out) :
                  \/ RegisterLine(out[k])
                  \/ /\ WaitLine(out[k])
                     /\ NumberOf(WaitDigits(out[k])) >= 1)
  /\ [][pc = "header" => pc' = "body" /\ rate' = 980 /\ l_buf' = out[1]]_vars
  /\ [][LineStep
          => /\ l_buf' = out[line_count + 1]
             /\ pc' = "body"
             /\ IF WaitLine(l_buf')
                  THEN /\ t' = t + NumberOf(WaitDigits(l_buf'))
                       /\ t' > t
                       /\ current' > current
                  ELSE /\ RegisterLine(l_buf')
                       /\ Len(Added) = 1
                       /\ Added[1][1] = "opl_write"
                       /\ UNCHANGED <<t, current>>]_vars
  /\ [][pc = "body" /\ line_count = Len(out) => pc' = "done"]_vars
  /\ [](pc = "done"
          => /\ line_count = Len(out)
             /\ t = ctl_offs
             /\ IsFloor(current, t, sample_rate, 980)
             /\ s_total = current)

\* C29 witness: the script of two passes over r a2 87, wait 735, r 20 01,
\* wait 11, end marker, with the loop offset at the second command, has
\* been played at 48000 samples per second: seven lines, 33 ticks, 1616
\* samples.
C29_Witness ==
  /\ pc = "done"
  /\ sample_rate = 48000
  /\ rep_count = 2
  /\ pData = <<90, 162, 135, 98, 90, 32, 1, 122, 102>>
  /\ loop_offs = U32Of(3)
  /\ line_count = 7
  /\ t = 33
  /\ current = 1616
  /\ s_total = 1616

\* ------------------------------------------------------------------------
\* The interpreter: waits move the sample position on
\* ------------------------------------------------------------------------

\* Clock values in the last two whole seconds for which the sample
\* position is within INT32_MAX, at the first and the last ticks of the
\* second.
LateClocks ==
  { (q * rate) + j :
      q \in { (INT32_MAX \div sample_rate) - 1, INT32_MAX \div sample_rate },
      j \in { 0, 1, rate \div 2, rate - 1 } }

\* C30: at every control rate 1..1024 and at both sampling rates, a wait
\* line with a count of at least 1 is accepted and moves the sample
\* position strictly on, and a wait line that stops the program for want
\* of progress is a wait of 0 ticks.  For late clock values, as long as
\* the new sample position is within INT32_MAX, the sample position of
\* the clock plus 1..MaxCount ticks is above that of the clock.
C30_WaitsAdvance ==
  /\ [][LineStep /\ WaitLine(l_buf')
          => LET n == NumberOf(WaitDigits(l_buf'))
             IN  IF n >= 1
                   THEN /\ pc' = "body"
                        /\ t' = t + n
                        /\ current' > current
                        /\ IsFloor(current', t', sample_rate, rate)
                   ELSE pc' = "error" /\ UNCHANGED <<current, events>>]_vars
  /\ [][LineStep /\ pc' = "error" => WaitLineFor(l_buf', 0)]_vars
  /\ [](pc = "body"
          => \A tv \in LateClocks : \A n \in 1..MaxCount :
               SampleOffsetInRange(tv + n, sample_rate, rate)
                 => SampleOffset(tv + n, sample_rate, rate)
                      > SampleOffset(tv, sample_rate, rate))

\* C30 witness: at the control rate 1024 and 44100 samples per second,
\* two waits of one tick have moved the sample position to 43 and to 86.
C30_Witness ==
  /\ pc = "body"
  /\ rate = 1024
  /\ sample_rate = 44100
  /\ line_count = 3
  /\ t = 2
  /\ current = 86
  /\ events[Len(events)] = <<"opl_generate", 43, 43>>

\* ------------------------------------------------------------------------
\* vgm2opl: reads within the data section
\* ------------------------------------------------------------------------

\* The offsets in the data section of the bytes that the iteration at pd
\* reads: the opcode, and the two operands of 0x61 and 0x5a when the
\* length test lets them be read.
BytesRead ==
  IF pData[pd + 1] \in {90, 97} /\ U32Le(U32Of(3), data_len)
    THEN {pd, pd + 1, pd + 2}
    ELSE {pd}

\* C31: in the walk, in the first pass and in the second, from every loop
\* offset, pd and the length left add up to the length of the loaded data
\* section, so that the length left never passes below zero; every byte
\* an iteration reads, opcode or operand, is a byte of the data section;
\* an iteration that goes on moves pd on by the bytes it has read and
\* takes them off the length left.  At an opcode 0x61 or 0x5a with fewer
\* than two bytes after it the program stops with an error and writes no
\* line.
C31_ReadsInDataSection ==
  /\ [](pc = "vgm_walk"
          => /\ Len(pData) = U32Val(full_length)
             /\ pd \in 0..Len(pData)
             /\ U32Le(data_len, full_length)
             /\ pd + U32Val(data_len) = Len(pData)
             /\ AtOpcode => \A o \in BytesRead : o \in 0..(Len(pData) - 1))
  /\ [][AtOpcode /\ pc' = "vgm_walk"
          => /\ pd' = pd + Cardinality(BytesRead)
             /\ data_len' = U32Sub(data_len, U32Of(Cardinality(BytesRead)))
             /\ UNCHANGED <<pData, full_length, pass>>]_vars
  /\ [][AtOpcode /\ pData[pd + 1] \in {90, 97} /\ U32Lt(data_len, U32Of(3))
          => /\ pc' = "error"
             /\ stderr' = Append(stderr,
                                 <<"VGM opcode missing parameters!", 0>>)
             /\ UNCHANGED <<out, samp_offs, ctl_offs, pd, data_len>>]_vars

\* C31 witness: the data section 0x5a 0x61 0x00 with the loop offset at
\* its second byte: the first pass has written r 61 00, the second pass
\* has found the opcode 0x61 with one byte after it and stopped the
\* program, with nothing more written.
C31_Witness ==
  /\ pc = "error"
  /\ stderr = << <<"VGM opcode missing parameters!", 0>> >>
  /\ pData = <<90, 97, 0>>
  /\ loop_offs = U32Of(1)
  /\ pass = 1
  /\ pd = 1
  /\ data_len = U32Of(2)
  /\ Len(out) = 2
  /\ out[2] = RegisterLineOf(<<97, 0>>)

\* ------------------------------------------------------------------------
\* The interpreter: every sample is written once
\* ------------------------------------------------------------------------

\* The number of samples written to the output by a sequence of events.
Written(ev) == WrittenIn(ev, 1, Len(ev))

\* The interpreter is between two lines, or done: every line read so far
\* is processed completely.
BetweenLines == pc \in {"header", "body", "done"}

\* C32: the sample buffer holds between 0 and 4096 samples in every
\* state.  After every completely processed line the samples written
\* out and the samples in the buffer are together the samples generated
\* by the device, and that many is the sample position; the samples
\* written out are those counted in s_total.  A step writes no more than
\* was generated and not yet written, and when the interpreter is done
\* the buffer is empty and every generated sample has been written.
C32_SamplesConserved ==
  /\ [](s_fill \in 0..BUFFER_SAMPLES)
  /\ [](BetweenLines
          => /\ s_total + s_fill = Generated(events)
             /\ Generated(events) = current
             /\ Written(events) = s_total)
  /\ [](Written(events) <= Generated(events))
  /\ [](pc = "done" => s_fill = 0 /\ Written(events) = current)

\* C32 witness: a wait line has been processed that filled the buffer
\* more than twice: two full buffers and more are written, the rest is
\* in the buffer, and together they are the sample position.
C32_Witness ==
  /\ pc = "body"
  /\ WaitLine(l_buf)
  /\ Written(events) >= 2 * BUFFER_SAMPLES
  /\ s_fill \in 1..(BUFFER_SAMPLES - 1)
  /\ s_total + s_fill = current
  /\ Generated(events) = current

====
